---- MODULE Spec2Model ----
(***************************************************************************)
(* Python-Code-Tester: the analysis worker (analysis.py, AnalysisThread)   *)
(* and the application object that starts it, cancels it and consumes its  *)
(* signals (ui.py, AnalyzerApp).                                           *)
(*                                                                         *)
(* Two threads of control are modelled.  The GUI thread runs AnalyzerApp's *)
(* slots one at a time from its event loop.  Each AnalysisThread runs      *)
(* run() sequentially; its position is kept per thread and advances at     *)
(* every read of the shared flag is_running and at every subprocess wait.  *)
(* Signals emitted by a worker are queued to the GUI thread (Qt queued     *)
(* connections across threads) and delivered in FIFO order.                *)
(***************************************************************************)
EXTENDS Integers, Sequences, FiniteSets, TLC

\* ------------------------------------------------------------------ bounds

\* AnalysisThread objects created in one behaviour.
MaxRuns == 2

\* Start requests accepted in one behaviour of Spec, which ranges over all the
\* settings of SettingsChoices.
MaxRunsAnySettings == 1
MaxPending == 2


\* Modules in a radon document and blocks in a module, for the documents the
\* complexity adapter is applied to.
MaxModules == 2
MaxBlocks == 2

Threads == 1..MaxRuns

\* ------------------------------------------------------- catalog and steps

\* ui.py:202-205
available_tools ==
    {"Pylint", "Flake8", "Mypy", "Radon", "Bandit", "Black", "Autopep8", "Isort",
     "Pydocstyle", "Pip-Licenses", "Pytest", "Coverage", "Pip-Audit",
     "Code Duplication", "Profiling", "Documentation Generation"}

\* ui.py:584-601, each tool mapped to its list of steps
tools_to_steps ==
    [tool \in available_tools |->
        CASE tool \in {"Pylint", "Flake8"} -> {"linting"}
          [] tool = "Mypy" -> {"type checking"}
          [] tool = "Radon" -> {"complexity"}
          [] tool = "Bandit" -> {"security"}
          [] tool \in {"Black", "Autopep8", "Isort"} -> {"formatting"}
          [] tool = "Pydocstyle" -> {"documentation"}
          [] tool = "Pytest" -> {"testing"}
          [] tool = "Coverage" -> {"coverage"}
          [] tool = "Pip-Licenses" -> {"license"}
          [] tool = "Pip-Audit" -> {"dependency audit"}
          [] tool = "Code Duplication" -> {"code duplication"}
          [] tool = "Profiling" -> {"profiling"}
          [] tool = "Documentation Generation" -> {"documentation generation"}]

\* tools_to_steps.get(tool, [])
tools_to_steps_get(tool) ==
    IF tool \in DOMAIN tools_to_steps THEN tools_to_steps[tool] ELSE {}

\* The loop of ui.py:603-606 over the selected tools, one tool per iteration.
RECURSIVE collect_steps(_, _)
collect_steps(remaining, acc) ==
    IF remaining = {} THEN acc
    ELSE LET tool == CHOOSE x \in remaining : TRUE
         IN  collect_steps(remaining \ {tool}, acc \cup tools_to_steps_get(tool))

\* ui.py:603-608: self.steps and self.total_steps = len(self.steps)
compute_steps(selected) == collect_steps(selected, {})

\* Faulty variant: one step counted per selected tool.
compute_total_steps_per_tool(selected) == Cardinality(selected)

compute_total_steps(selected) == Cardinality(compute_steps(selected))

\* ------------------------------------------------------------------- text

(***************************************************************************)
(* A captured output is a sequence of chunks joined by "\n": <<stdout>>    *)
(* for a process that exited 0, <<stdout, stderr>> for the string          *)
(* stdout.strip() + "\n" + stderr.strip() that run_command builds from a   *)
(* CalledProcessError, and <<>> for the empty string.  A chunk is one of   *)
(* the sample outputs below; "" is a blank chunk.                          *)
(***************************************************************************)

EmptyText == <<>>

NonBlank(text) == SelectSeq(text, LAMBDA c : c # "")

\* output.strip() == ''
is_blank(text) == NonBlank(text) = <<>>

\* Sample chunks that are well-formed JSON, with the value json.loads gives.
JList(items) == [ty |-> "list", items |-> items, keys |-> {}]
JDict(keys) == [ty |-> "dict", items |-> <<>>, keys |-> keys]
JSONDecodeError == [ty |-> "JSONDecodeError", items |-> <<>>, keys |-> {}]

json_chunks ==
    {"[]", "{}",
     "[{type:convention},{type:error}]",
     "{m.py:[{complexity:3}]}", "{m.py:[{complexity:12}]}",
     "{results:[]}", "{results:[B101,B102]}",
     "[{Name:a,License:MIT}]", "[{Name:b,License:Proprietary}]", "[{Name:c}]",
     "[{name:d,vulns:[V1]}]",
     "{meta:{coverage_percent:85}}", "{meta:{version:7},totals:{percent_covered:85}}"}

\* The elements of the top-level list of a JSON chunk.
list_items(chunk) ==
    CASE chunk = "[]" -> <<>>
      [] chunk = "[{type:convention},{type:error}]" ->
            <<[type |-> "convention"], [type |-> "error"]>>
      [] chunk = "[{Name:a,License:MIT}]" -> <<[Name |-> "a", License |-> "MIT"]>>
      [] chunk = "[{Name:b,License:Proprietary}]" ->
            <<[Name |-> "b", License |-> "Proprietary"]>>
      [] chunk = "[{Name:c}]" -> <<[Name |-> "c"]>>
      [] chunk = "[{name:d,vulns:[V1]}]" -> <<[name |-> "d"]>>
      [] OTHER -> <<>>

dict_keys(chunk) ==
    CASE chunk = "{}" -> {}
      [] chunk \in {"{m.py:[{complexity:3}]}", "{m.py:[{complexity:12}]}"} -> {"m.py"}
      [] chunk \in {"{results:[]}", "{results:[B101,B102]}"} -> {"results"}
      [] chunk = "{meta:{coverage_percent:85}}" -> {"meta"}
      [] chunk = "{meta:{version:7},totals:{percent_covered:85}}" -> {"meta", "totals"}
      [] OTHER -> {}

json_value(chunk) ==
    IF chunk \in {"[]", "[{type:convention},{type:error}]", "[{Name:a,License:MIT}]",
                  "[{Name:b,License:Proprietary}]", "[{Name:c}]", "[{name:d,vulns:[V1]}]"}
    THEN JList(list_items(chunk))
    ELSE JDict(dict_keys(chunk))

\* json.loads(text): surrounding whitespace is ignored, anything else after the
\* first document ("Extra data") or a non-JSON document raises JSONDecodeError.
json_loads(text) ==
    LET nb == NonBlank(text)
    IN  IF Len(nb) = 1 /\ nb[1] \in json_chunks THEN json_value(nb[1])
        ELSE JSONDecodeError

\* needle in text, for the substrings the code looks for
contains(text, needle) ==
    \E i \in 1..Len(text) :
        \/ needle = "would reformat" /\ text[i] = "would reformat m.py"
        \/ needle = "Success: no issues found in"
              /\ text[i] = "Success: no issues found in 1 source file"
        \/ needle = "no tests ran" /\ text[i] = "no tests ran in 0.01s"
        \/ needle = "Error" /\ text[i] = "Error: cannot import module"
        \/ needle = "All done!" /\ text[i] = "All done!"

\* ------------------------------------------------------------ the worker

\* The blocks of run with the first two exchanged.
run_order_exchanged ==
    <<"Mypy", "Pylint", "Radon", "Bandit", "Black", "Pydocstyle", "Pip-Licenses",
      "Pytest", "Pip-Audit", "Autopep8", "Isort", "Flake8",
      "Documentation Generation", "final">>

\* The order of the blocks of AnalysisThread.run, analysis.py:63-126.  The
\* auto-fix block (109-113) holds two tools; "final" is lines 125-129.
run_order ==
    <<"Pylint", "Mypy", "Radon", "Bandit", "Black", "Pydocstyle", "Pip-Licenses",
      "Pytest", "Pip-Audit", "Autopep8", "Isort", "Flake8",
      "Documentation Generation", "final">>

FinalSlot == Len(run_order)

autofix_tools == {"Autopep8", "Isort"}

\* The executable each run_* method looks up with shutil.which.
executable(tool) ==
    CASE tool = "Pylint" -> "pylint"
      [] tool = "Mypy" -> "mypy"
      [] tool = "Radon" -> "radon"
      [] tool = "Bandit" -> "bandit"
      [] tool = "Black" -> "black"
      [] tool = "Pydocstyle" -> "pydocstyle"
      [] tool = "Pip-Licenses" -> "pip-licenses"
      [] tool = "Pytest" -> "pytest"
      [] tool = "Pip-Audit" -> "pip-audit"
      [] tool = "Autopep8" -> "autopep8"
      [] tool = "Isort" -> "isort"
      [] tool = "Flake8" -> "flake8"
      [] tool = "Documentation Generation" -> "pdoc"

\* The completion signal of each block (analysis.py:30-42).
completed_signal(tool) ==
    CASE tool = "Pylint" -> "lint_completed"
      [] tool = "Mypy" -> "typecheck_completed"
      [] tool = "Radon" -> "complexity_completed"
      [] tool = "Bandit" -> "security_completed"
      [] tool = "Black" -> "formatting_completed"
      [] tool = "Pydocstyle" -> "documentation_completed"
      [] tool = "Pip-Licenses" -> "license_completed"
      [] tool = "Pytest" -> "test_completed"
      [] tool = "Pip-Audit" -> "dependency_audit_completed"
      [] tool = "Flake8" -> "code_duplication_completed"
      [] tool = "Documentation Generation" -> "documentation_generated"

Ev(t, sig, arg) == [t |-> t, sig |-> sig, arg |-> arg]

\* The else branches of run(): the "skipped" emissions of a block whose tool
\* is not selected or whose gate saw is_running false.
skipped_events(t, tool) ==
    CASE tool = "Pylint" -> <<Ev(t, "lint_completed", <<"Pylint analysis skipped.">>)>>
      [] tool = "Mypy" -> <<Ev(t, "typecheck_completed", <<"Mypy analysis skipped.">>)>>
      [] tool = "Radon" -> <<Ev(t, "complexity_completed", <<"Radon analysis skipped.">>)>>
      [] tool = "Bandit" -> <<Ev(t, "security_completed", <<"Bandit analysis skipped.">>)>>
      [] tool = "Black" ->
            <<Ev(t, "formatting_completed", <<"Black formatting check skipped.">>)>>
      [] tool = "Pydocstyle" ->
            <<Ev(t, "documentation_completed", <<"Pydocstyle analysis skipped.">>)>>
      [] tool = "Pip-Licenses" ->
            <<Ev(t, "license_completed", <<"License compliance check skipped.">>)>>
      [] tool = "Pytest" ->
            <<Ev(t, "test_completed", <<"Testing skipped.">>),
              Ev(t, "coverage_completed", <<"Coverage analysis skipped.">>)>>
      [] tool = "Pip-Audit" ->
            <<Ev(t, "dependency_audit_completed", <<"Dependency audit skipped.">>)>>
      [] tool = "Flake8" ->
            <<Ev(t, "code_duplication_completed",
                 <<"Flake8 code duplication analysis skipped.">>)>>
      [] tool = "Documentation Generation" ->
            <<Ev(t, "documentation_generated", <<"Documentation generation skipped.">>)>>
      [] OTHER -> <<>>

\* The branch of a run_* method taken when is_tool_available is false.
not_available_events(t, tool) ==
    LET exe == executable(tool)
        err == Ev(t, "progress", <<"Error: ", exe, " is not available. Please install it.">>)
    IN  CASE tool \in autofix_tools -> <<err>>
          [] tool = "Pytest" ->
                <<err, Ev(t, "test_completed", <<"pytest is not available.">>),
                  Ev(t, "coverage_completed", <<"Coverage analysis skipped.">>)>>
          [] tool = "Flake8" ->
                <<err, Ev(t, "code_duplication_completed", <<"Flake8 is not available.">>)>>
          [] OTHER ->
                <<err, Ev(t, completed_signal(tool), <<exe, " is not available.">>)>>

\* The progress messages a run_* method emits before it calls run_command.
starting_events(t, tool) ==
    LET exe == executable(tool)
    IN  IF tool \in autofix_tools
        THEN <<Ev(t, "progress", <<"Starting ", exe, "...">>)>>
        ELSE <<Ev(t, "progress", <<"Starting ", exe, "...">>),
               Ev(t, "progress", <<"Running ", exe, "...">>)>>

\* ------------------------------------------------------------ run_command

\* How a spawned process can end, as subprocess.run reports it.
exit_kinds == {"zero", "nonzero", "timeout", "notfound", "oserror"}

Proc(exit, stdout, stderr) == [exit |-> exit, stdout |-> stdout, stderr |-> stderr]

\* No output is captured when the process did not run to its end.
no_output_results ==
    {Proc("timeout", "", ""), Proc("notfound", "", ""), Proc("oserror", "", "")}

\* Sample endings of each command: (exit, stdout, stderr).
process_results(tool, sub) ==
    CASE sub = "fix" \/ tool \in autofix_tools ->
            {Proc("zero", "reformatted m.py", ""), Proc("nonzero", "", "cannot format m.py")}
      [] tool = "Pylint" ->
            {Proc("zero", "[]", ""),
             Proc("nonzero", "[{type:convention},{type:error}]", ""),
             Proc("nonzero", "", "usage: pylint")}
      [] tool = "Mypy" ->
            {Proc("zero", "Success: no issues found in 1 source file", ""),
             Proc("nonzero", "m.py:1: error: bad type", "")}
      [] tool = "Radon" ->
            {Proc("zero", "{m.py:[{complexity:3}]}", ""),
             Proc("zero", "{m.py:[{complexity:12}]}", "")}
      [] tool = "Bandit" ->
            {Proc("zero", "{results:[]}", ""),
             Proc("nonzero", "{results:[B101,B102]}", "[main] INFO running")}
      [] tool = "Black" ->
            {Proc("zero", "", "All done!"),
             Proc("nonzero", "", "would reformat m.py")}
      [] tool = "Pydocstyle" ->
            {Proc("zero", "", ""), Proc("nonzero", "m.py:1 D100", "")}
      [] tool = "Pip-Licenses" ->
            {Proc("zero", "[]", ""),
             Proc("zero", "[{Name:a,License:MIT}]", ""),
             Proc("zero", "[{Name:b,License:Proprietary}]", ""),
             Proc("zero", "[{Name:c}]", "")}
      [] tool = "Pytest" ->
            {Proc("zero", "1 passed", ""), Proc("nonzero", "no tests ran in 0.01s", "")}
      [] tool = "Pip-Audit" ->
            {Proc("zero", "[]", ""), Proc("nonzero", "[{name:d,vulns:[V1]}]", ""),
             Proc("nonzero", "[{name:d,vulns:[V1]}]", "Found 1 known vulnerability")}
      [] tool = "Flake8" ->
            {Proc("zero", "", ""), Proc("nonzero", "m.py:1:1: DUO101", "")}
      [] tool = "Documentation Generation" ->
            {Proc("zero", "", ""), Proc("nonzero", "", "Error: cannot import module")}

all_process_results(tool, sub) == process_results(tool, sub) \cup no_output_results

\* What run_command returns for an ended process (analysis.py:528-556).
run_command_output(proc) ==
    CASE proc.exit = "zero" -> <<proc.stdout>>
      [] proc.exit = "nonzero" -> <<proc.stdout, proc.stderr>>
      [] OTHER -> EmptyText

\* The error message run_command emits on the progress signal, if any.
run_command_events(t, tool, proc) ==
    LET exe == executable(tool)
    IN  CASE proc.exit = "zero" -> <<>>
          [] proc.exit = "timeout" ->
                <<Ev(t, "progress", <<"Command ", exe, " timed out.">>)>>
          [] proc.exit = "notfound" ->
                <<Ev(t, "progress", <<"Command not found: ", exe>>)>>
          [] proc.exit = "nonzero" ->
                <<Ev(t, "progress", <<"Error running ", exe, ": ", proc.stderr>>)>>
          [] proc.exit = "oserror" ->
                <<Ev(t, "progress", <<"An error occurred while running ", exe>>)>>

\* ------------------------------------------------------- recommendations

\* What a generate_*_recommendations call does: the entries it appends and
\* whether an exception other than JSONDecodeError leaves it.
Gen(recs, raised) == [recs |-> recs, raised |-> raised]

\* All orders of a set of at most two strings (iteration order of a Python set).
orders_of(S) ==
    IF S = {} THEN {<<>>}
    ELSE {q \in UNION {[1..n -> S] : n \in {Cardinality(S)}} :
             \A x \in S : \E i \in DOMAIN q : q[i] = x}

\* analysis.py:157-167
generate_pylint_recommendations(output) ==
    LET issues == json_loads(output)
    IN  IF issues.ty = "JSONDecodeError" THEN {Gen(<<>>, FALSE)}
        ELSE IF issues.items = <<>> /\ issues.keys = {}
        THEN {Gen(<<"Pylint: No issues found. Great job!">>, FALSE)}
        ELSE IF issues.ty # "list"
                  \/ \E i \in DOMAIN issues.items : "type" \notin DOMAIN issues.items[i]
        THEN {Gen(<<>>, TRUE)}
        ELSE LET error_types == {issues.items[i].type : i \in DOMAIN issues.items}
             IN  {Gen([i \in DOMAIN q |->
                          "Pylint: Address " \o q[i] \o " issues for better code quality."],
                      FALSE) : q \in orders_of(error_types)}

\* analysis.py:191-195
generate_mypy_recommendations(output) ==
    IF contains(output, "Success: no issues found in")
    THEN {Gen(<<"Mypy: No type issues found. Excellent!">>, FALSE)}
    ELSE {Gen(<<"Mypy: Consider adding type annotations to improve code reliability.">>,
              FALSE)}

\* The largest block complexity a radon sample reports.
max_complexity(output) ==
    IF NonBlank(output) = <<"{m.py:[{complexity:12}]}">> THEN 12
    ELSE IF NonBlank(output) = <<"{m.py:[{complexity:3}]}">> THEN 3
    ELSE 0

\* The decoded document of a radon sample: the modules in the order of the
\* document, each with the complexities of its blocks.
radon_blocks(output) ==
    IF NonBlank(output) = <<"{m.py:[{complexity:12}]}">> THEN << <<12>> >>
    ELSE IF NonBlank(output) = <<"{m.py:[{complexity:3}]}">> THEN << <<3>> >>
    ELSE <<>>

\* self.settings.get(key, default)
settings_get(st, key, default) == IF key \in DOMAIN st THEN st[key] ELSE default

\* Faulty variant: a block at the threshold counts as too complex.
exceeds_or_reaches(complexity, threshold) == complexity >= threshold

\* analysis.py:223, the comparison
exceeds(complexity, threshold) == complexity > threshold

\* analysis.py:222-225: the inner loop from block i on; it stops at the first
\* block over the threshold.
RECURSIVE blocks_loop(_, _, _)
blocks_loop(metrics, i, threshold) ==
    IF i > Len(metrics) THEN FALSE
    ELSE IF exceeds(metrics[i], threshold) THEN TRUE
    ELSE blocks_loop(metrics, i + 1, threshold)

\* analysis.py:220-225: the outer loop from module m on, with the flag so far;
\* the break leaves the inner loop only.
RECURSIVE modules_loop(_, _, _, _)
modules_loop(complexities, m, threshold, high_complexity) ==
    IF m > Len(complexities) THEN high_complexity
    ELSE modules_loop(complexities, m + 1, threshold,
                      high_complexity \/ blocks_loop(complexities[m], 1, threshold))

\* analysis.py:220-229 on a decoded document
radon_recommendation(complexities, st) ==
    IF modules_loop(complexities, 1, settings_get(st, "radon_threshold", 10), FALSE)
    THEN "Radon: Simplify complex functions to reduce cognitive load."
    ELSE "Radon: Code complexity is within acceptable limits."

\* analysis.py:217-231
generate_radon_recommendations(output, st) ==
    LET complexities == json_loads(output)
    IN  IF complexities.ty = "JSONDecodeError" THEN {Gen(<<>>, FALSE)}
        ELSE IF complexities.ty # "dict" THEN {Gen(<<>>, TRUE)}
        ELSE IF "results" \in complexities.keys THEN {Gen(<<>>, TRUE)}
        ELSE {Gen(<<radon_recommendation(radon_blocks(output), st)>>, FALSE)}

\* len(data.get('results', [])) of a bandit sample
bandit_results(output) ==
    IF NonBlank(output) = <<"{results:[B101,B102]}">> THEN 2 ELSE 0

\* analysis.py:255-264
generate_bandit_recommendations(output) ==
    LET data == json_loads(output)
    IN  IF data.ty = "JSONDecodeError" THEN {Gen(<<>>, FALSE)}
        ELSE IF data.ty # "dict" THEN {Gen(<<>>, TRUE)}
        ELSE IF bandit_results(output) > 0
        THEN {Gen(<<"Bandit: Address the identified security issues to secure your code.">>,
                  FALSE)}
        ELSE {Gen(<<"Bandit: No security issues found. Good job!">>, FALSE)}

\* analysis.py:294-298
generate_black_recommendations(output) ==
    IF contains(output, "would reformat")
    THEN {Gen(<<"Black: Consider formatting your code for better readability.">>, FALSE)}
    ELSE {Gen(<<"Black: Code is properly formatted.">>, FALSE)}

\* analysis.py:320-324
generate_pydocstyle_recommendations(output) ==
    IF is_blank(output)
    THEN {Gen(<<"Pydocstyle: Documentation complies with style guidelines.">>, FALSE)}
    ELSE {Gen(<<"Pydocstyle: Improve docstrings to enhance code maintainability.">>, FALSE)}

compliant_licenses == {"MIT", "BSD", "Apache 2.0", "GPLv3", "LGPL", "MPL"}

\* analysis.py:346-358
generate_pip_licenses_recommendations(output) ==
    LET licenses == json_loads(output)
    IN  IF licenses.ty = "JSONDecodeError" THEN {Gen(<<>>, FALSE)}
        ELSE IF licenses.ty = "dict"
        THEN IF licenses.keys = {}
             THEN {Gen(<<"Pip-Licenses: All dependencies have compliant licenses.">>, FALSE)}
             ELSE {Gen(<<>>, TRUE)}
        ELSE IF \E i \in DOMAIN licenses.items :
                    /\ \A j \in 1..(i - 1) : "License" \in DOMAIN licenses.items[j]
                    /\ \/ "License" \notin DOMAIN licenses.items[i]
                       \/ /\ licenses.items[i].License \notin compliant_licenses
                          /\ "Name" \notin DOMAIN licenses.items[i]
        THEN {Gen(<<>>, TRUE)}
        ELSE LET non_compliant ==
                    SelectSeq(licenses.items,
                              LAMBDA pkg : pkg.License \notin compliant_licenses)
             IN  IF non_compliant # <<>>
                 THEN {Gen(<<"Pip-Licenses: Review licenses of "
                              \o non_compliant[1].Name \o " for compliance.">>, FALSE)}
                 ELSE {Gen(<<"Pip-Licenses: All dependencies have compliant licenses.">>,
                           FALSE)}

\* analysis.py:400-404 (output.lower() leaves the samples as they are)
generate_pytest_recommendations(output) ==
    IF contains(output, "no tests ran")
    THEN {Gen(<<"Pytest: No tests found. Consider adding tests to improve code reliability.">>,
              FALSE)}
    ELSE {Gen(<<"Pytest: Tests executed. Review test results for failures.">>, FALSE)}

\* analysis.py:431-439
generate_pip_audit_recommendations(output) ==
    LET vulnerabilities == json_loads(output)
    IN  IF vulnerabilities.ty = "JSONDecodeError" THEN {Gen(<<>>, FALSE)}
        ELSE IF vulnerabilities.items # <<>> \/ vulnerabilities.keys # {}
        THEN {Gen(<<"Pip-Audit: Update dependencies to address vulnerabilities.">>, FALSE)}
        ELSE {Gen(<<"Pip-Audit: No vulnerabilities found in dependencies.">>, FALSE)}

\* analysis.py:491-495
generate_flake8_duplication_recommendations(output) ==
    IF is_blank(output)
    THEN {Gen(<<"Flake8: No code duplication issues found.">>, FALSE)}
    ELSE {Gen(<<"Flake8: Consider refactoring duplicated code to improve maintainability.">>,
              FALSE)}

\* analysis.py:515-521, the recommendation generate_documentation appends
generate_documentation_recommendations(output) ==
    IF contains(output, "Error")
    THEN {Gen(<<"Documentation: Failed to generate documentation.">>, FALSE)}
    ELSE {Gen(<<"Documentation: Project documentation generated using pdoc.">>, FALSE)}

\* The recommendation an auto-fix command is followed by (analysis.py:292, 454, 469).
autofix_recommendation(tool) ==
    CASE tool = "Black" -> "Black: Code formatted automatically."
      [] tool = "Autopep8" -> "Autopep8: Code auto-formatted to comply with PEP 8."
      [] tool = "Isort" -> "Isort: Imports sorted according to style guidelines."

\* The adapter of each block, applied to the output of its command.
generate_recommendations(tool, output, st) ==
    CASE tool = "Pylint" -> generate_pylint_recommendations(output)
      [] tool = "Mypy" -> generate_mypy_recommendations(output)
      [] tool = "Radon" -> generate_radon_recommendations(output, st)
      [] tool = "Bandit" -> generate_bandit_recommendations(output)
      [] tool = "Black" -> generate_black_recommendations(output)
      [] tool = "Pydocstyle" -> generate_pydocstyle_recommendations(output)
      [] tool = "Pip-Licenses" -> generate_pip_licenses_recommendations(output)
      [] tool = "Pytest" -> generate_pytest_recommendations(output)
      [] tool = "Pip-Audit" -> generate_pip_audit_recommendations(output)
      [] tool = "Flake8" -> generate_flake8_duplication_recommendations(output)
      [] tool = "Documentation Generation" -> generate_documentation_recommendations(output)

\* What the block emits on its completion signal once its command returned.
completed_events(t, tool, output) ==
    IF tool = "Documentation Generation"
    THEN IF contains(output, "Error")
         THEN <<Ev(t, "documentation_generated", <<"Documentation generation failed.">>)>>
         ELSE <<Ev(t, "documentation_generated", <<"Documentation generated at docs">>)>>
    ELSE <<Ev(t, completed_signal(tool), output)>>

\* coverage_data.get('meta', {}).get('coverage_percent', 0)
coverage_percent(chunk) == IF chunk = "{meta:{coverage_percent:85}}" THEN 85 ELSE 0

\* analysis.py:406-411
generate_coverage_recommendations(chunk) ==
    IF json_value(chunk).ty # "dict" THEN Gen(<<>>, TRUE)
    ELSE IF coverage_percent(chunk) < 80
    THEN Gen(<<"Coverage: Code coverage is 0.00%. Aim for at least 80%.">>, FALSE)
    ELSE Gen(<<"Coverage: Good job! Code coverage is 85.00%.">>, FALSE)

\* ------------------------------------------------------------------ state

VARIABLES
    \* AnalyzerApp, owned by the GUI thread
    settings,              \* self.settings
    steps,                 \* self.steps
    total_steps,           \* self.total_steps
    completed_steps,       \* self.completed_steps
    status_label,          \* text of self.status_label
    progress_bar,          \* value of self.progress_bar
    select_btn,            \* enabled state of the buttons
    git_clone_btn,
    cancel_btn,
    analysis_thread,       \* self.analysis_thread: a thread id, 0 for None
    recommendations_text,  \* text of self.recommendations_text
    issue_counts,          \* self.lint_issues ... self.vulnerabilities
    tab_text,              \* text of the result panels of the JSON tools
    analysis_results,      \* self.analysis_results, entries of the JSON tools
    gui,                   \* where the GUI thread is: "idle" in its event loop,
                           \* "stop" inside AnalysisThread.stop()
    msgboxes,              \* open "Documentation Generated" message boxes
    \* files in tester_dir
    metrics_file,          \* metrics.json
    coverage_report,       \* coverage.json
    \* the workers and the signals queued to the GUI thread
    thr,
    queue,
    \* history, not program state
    counted,               \* step names counted complete since the last start
    reject_tick            \* flips at every rejected start request

gui_vars == <<settings, steps, total_steps, completed_steps, status_label, progress_bar,
              select_btn, git_clone_btn, cancel_btn, analysis_thread,
              recommendations_text, issue_counts, tab_text,
              analysis_results, gui, msgboxes, counted, reject_tick>>

vars == <<settings, steps, total_steps, completed_steps, status_label, progress_bar,
          select_btn, git_clone_btn, cancel_btn, analysis_thread, recommendations_text,
          issue_counts, tab_text,
          analysis_results, gui, msgboxes, metrics_file, coverage_report, thr, queue,
          counted, reject_tick>>

\* A thread object before it is constructed.
Unborn ==
    [state |-> "unborn", is_running |-> FALSE,
     settings |-> [selected_tools |-> {}, enable_autofix |-> FALSE,
                   enable_metrics_tracking |-> FALSE, enable_git_integration |-> FALSE,
                   radon_threshold |-> 0],
     slot |-> 0, ph |-> "start", sub |-> "main", in_autofix |-> FALSE,
     output |-> EmptyText, recommendations_list |-> <<>>,
     launched |-> <<>>, inflight |-> 0, emitted |-> <<>>, observed |-> FALSE,
     failed |-> FALSE,
     missing |-> {}, reported_missing |-> {}, outcomes |-> <<>>,
     cancelled_at_start |-> FALSE, saved |-> 0, finished_delivered |-> FALSE]

\* Faulty variant: the thread object is constructed with the flag cleared.
NewThread_flag_down(st) ==
    [Unborn EXCEPT !.state = "running", !.is_running = FALSE, !.settings = st]

\* AnalysisThread.__init__ (analysis.py:46-54) followed by start()
NewThread(st) ==
    [Unborn EXCEPT !.state = "running", !.is_running = TRUE, !.settings = st]

\* The thread objects that will never be constructed (the bound on starts).
Unused == [Unborn EXCEPT !.state = "unused"]

\* ui.py:620: assigning self.analysis_thread drops the last reference to the
\* thread object of the run before, unless its run() is still executing.
Released(r) ==
    IF r.state \in {"finished", "terminated"} THEN [Unborn EXCEPT !.state = "released"]
    ELSE r

\* QThread.isRunning()
isRunning(t) == thr[t].state = "running"

Label(msg) == [msg |-> msg, k |-> 0, n |-> 0]

\* ------------------------------------------------- AnalysisThread.run

Signals(evs) ==
    LET sigs == [i \in DOMAIN evs |-> evs[i].sig]
    IN  SelectSeq(sigs, LAMBDA x : x \notin {"progress", "finished"})

\* The executables that the progress messages among evs report as missing.
ReportedMissing(evs) ==
    {evs[i].arg[2] : i \in {j \in DOMAIN evs :
        /\ evs[j].sig = "progress" /\ Len(evs[j].arg) = 3
        /\ evs[j].arg[1] = "Error: "
        /\ evs[j].arg[3] = " is not available. Please install it."}}

\* The worker t moves to record r and emits evs, in order.
Worker(t, r, evs) ==
    /\ thr' = [thr EXCEPT ![t] =
                  [r EXCEPT !.emitted = @ \o Signals(evs),
                            !.reported_missing = @ \cup ReportedMissing(evs)]]
    /\ queue' = queue \o evs

\* The next block of run().
Advance(r) ==
    [r EXCEPT !.slot = @ + 1, !.ph = "gate", !.sub = "main", !.output = EmptyText]

\* run() returns; QThread emits finished.
Finished(r) == [r EXCEPT !.state = "finished", !.ph = "done", !.output = EmptyText]

\* analysis.py:131-133: an exception left a block; the output the block was
\* working on is kept as history
Failed(t, r, evs) ==
    Worker(t, [Finished(r) EXCEPT !.failed = TRUE, !.output = r.output],
           evs \o <<Ev(t, "progress", <<"Error: exception">>), Ev(t, "finished", <<>>)>>)

\* Faulty variant: the worker never sees the flag cleared.
reads_is_running_stale(r) == TRUE

\* The value a read of self.is_running gives the worker.
reads_is_running(r) == r.is_running

\* History: the worker has executed a read of self.is_running while it was False.
Seen(r) == [r EXCEPT !.observed = @ \/ ~r.is_running]

\* analysis.py:60
run_begin(t) ==
    /\ isRunning(t) /\ thr[t].ph = "start"
    /\ Worker(t, [thr[t] EXCEPT !.slot = 1, !.ph = "gate",
                                !.cancelled_at_start = ~thr[t].is_running], <<>>)
    /\ UNCHANGED <<gui_vars, metrics_file, coverage_report>>

\* Whether the gate of a block reads the flag: "tool in self.selected_tools and
\* self.is_running" short-circuits (line 109: "self.enable_autofix and ...").
gate_reads_flag(r, tool) ==
    CASE tool = "Autopep8" -> r.settings.enable_autofix
      [] tool = "Isort" -> FALSE
      [] OTHER -> tool \in r.settings.selected_tools

\* Faulty variant: the auto-fix block is entered whatever enable_autofix says.
gate_open_without_autofix(r, tool) ==
    CASE tool = "Isort" -> r.in_autofix /\ tool \in r.settings.selected_tools
      [] OTHER -> tool \in r.settings.selected_tools /\ reads_is_running(r)

\* Whether the gate of a block lets its tool run (for the auto-fix block:
\* line 109, then line 110 or 112).
gate_open(r, tool) ==
    CASE tool = "Autopep8" ->
            /\ r.settings.enable_autofix /\ reads_is_running(r)
            /\ tool \in r.settings.selected_tools
      [] tool = "Isort" -> r.in_autofix /\ tool \in r.settings.selected_tools
      [] OTHER -> tool \in r.settings.selected_tools /\ reads_is_running(r)

\* analysis.py:63-123, one if/else block of run()
run_gate(t) ==
    /\ isRunning(t) /\ thr[t].ph = "gate" /\ thr[t].slot < FinalSlot
    /\ LET r0 == thr[t]
           tool == run_order[r0.slot]
           r1 == IF gate_reads_flag(r0, tool) THEN Seen(r0) ELSE r0
           r == [r1 EXCEPT !.in_autofix =
                               IF tool = "Autopep8"
                               THEN r0.settings.enable_autofix /\ reads_is_running(r0)
                               ELSE @]
       IN  IF gate_open(r0, tool)
           THEN Worker(t, [r EXCEPT !.ph = "entry"], <<>>)
           ELSE Worker(t, Advance(r), skipped_events(t, tool))
    /\ UNCHANGED <<gui_vars, metrics_file, coverage_report>>

\* Faulty variant: the command is built and run whatever shutil.which found.
invokes_tool_unchecked(is_tool_available) == TRUE

\* Whether a run_* method goes on to run_command after is_tool_available
\* (e.g. analysis.py:140 and 144).
invokes_tool(is_tool_available) == is_tool_available

\* The head of a run_* method: "if not self.is_running: return", then the
\* availability check (e.g. analysis.py:138-146).
run_tool_entry(t) ==
    /\ isRunning(t) /\ thr[t].ph = "entry"
    /\ LET r0 == Seen(thr[t])
           tool == run_order[r0.slot]
       IN  IF ~reads_is_running(r0)
           THEN Worker(t, Advance(r0), <<>>)
           ELSE \E is_tool_available \in BOOLEAN :
                   LET r == IF is_tool_available THEN r0
                            ELSE [r0 EXCEPT !.missing = @ \cup {tool},
                                            !.outcomes = Append(@, <<tool, "missing">>)]
                   IN  IF invokes_tool(is_tool_available)
                       THEN Worker(t, [r EXCEPT !.ph = "cmd"], starting_events(t, tool))
                       ELSE Worker(t, Advance(r), not_available_events(t, tool))
    /\ UNCHANGED <<gui_vars, metrics_file, coverage_report>>

\* analysis.py:525-531: run_command up to the spawn
run_command_call(t) ==
    /\ isRunning(t) /\ thr[t].ph = "cmd"
    /\ LET r == Seen(thr[t])
           tool == run_order[r.slot]
       IN  IF reads_is_running(r)
           THEN Worker(t, [r EXCEPT !.ph = "inflight",
                                    !.launched = Append(@, <<tool, r.sub>>),
                                    !.inflight = @ + 1], <<>>)
           ELSE Worker(t, [r EXCEPT !.ph = "post", !.output = EmptyText], <<>>)
    /\ UNCHANGED <<gui_vars, metrics_file, coverage_report>>

\* The coverage.json a pytest process leaves: it writes a report, or ends
\* without writing one and leaves what was there.
coverage_reports_after(t, tool, sub, proc) ==
    IF tool = "Pytest" /\ proc.exit \in {"zero", "nonzero"}
    THEN {coverage_report}
         \cup {[exists |-> TRUE, by |-> t, content |-> c] :
                 c \in {"{meta:{coverage_percent:85}}",
                        "{meta:{version:7},totals:{percent_covered:85}}"}}
    ELSE {coverage_report}

\* Faulty variant: the timeout of subprocess.run is not caught.
run_command_raises_timeout(proc) == proc.exit = "timeout"

\* Whether an exception leaves run_command: its except clauses catch
\* TimeoutExpired, FileNotFoundError, CalledProcessError and Exception
\* (analysis.py:534-556).
run_command_raises(proc) == FALSE

\* Faulty variant: a child that exceeds the timeout is left running.
child_ended_unless_timeout(proc) == proc.exit # "timeout"

\* Whether the child process is gone when subprocess.run returns or raises: it
\* waits for the child and kills it when the timeout expires (analysis.py:529-531).
child_ended(proc) == TRUE

\* Faulty variant: subprocess.run is called without a timeout and the child
\* never exits.
subprocess_run_returns_never(tool, sub) == FALSE

\* Whether the wait in subprocess.run comes to an end: the child exits, or
\* timeout=300 expires and TimeoutExpired is raised (analysis.py:529-531).
subprocess_run_returns(tool, sub) == TRUE

\* analysis.py:528-556: the process ends and run_command returns
run_command_return(t) ==
    /\ isRunning(t) /\ thr[t].ph = "inflight"
    /\ subprocess_run_returns(run_order[thr[t].slot], thr[t].sub)
    /\ LET r == thr[t]
           tool == run_order[r.slot]
       IN  \E proc \in all_process_results(tool, r.sub) :
              LET r1 == [r EXCEPT !.outcomes = Append(@, <<tool, proc.exit>>),
                                  !.inflight = IF child_ended(proc) THEN @ - 1 ELSE @]
              IN  /\ IF run_command_raises(proc)
                     THEN Failed(t, r1, <<>>)
                     ELSE Worker(t, [r1 EXCEPT !.ph = "post",
                                               !.output = run_command_output(proc)],
                                 run_command_events(t, tool, proc))
                  /\ coverage_report' \in coverage_reports_after(t, tool, r.sub, proc)
    /\ UNCHANGED <<gui_vars, metrics_file>>

\* Faulty variant: the report is opened without the test for its existence,
\* and FileNotFoundError leaves run_pytest.
process_coverage_report_unchecked(t, report) ==
    IF report.exists
    THEN LET data == json_loads(<<report.content>>)
         IN  IF data.ty = "JSONDecodeError"
             THEN [evs |-> <<Ev(t, "coverage_completed",
                                <<"Failed to parse coverage report.">>)>>,
                   gen |-> Gen(<<>>, FALSE)]
             ELSE [evs |-> <<Ev(t, "coverage_completed", <<report.content>>)>>,
                   gen |-> generate_coverage_recommendations(report.content)]
    ELSE [evs |-> <<>>, gen |-> Gen(<<>>, TRUE)]

\* analysis.py:382-398: run_pytest reads, reports and removes coverage.json.
\* Gives the events, the recommendation outcome and the file afterwards.
process_coverage_report(t, report) ==
    IF report.exists
    THEN LET data == json_loads(<<report.content>>)
         IN  IF data.ty = "JSONDecodeError"
             THEN [evs |-> <<Ev(t, "coverage_completed",
                                <<"Failed to parse coverage report.">>)>>,
                   gen |-> Gen(<<>>, FALSE)]
             ELSE [evs |-> <<Ev(t, "coverage_completed", <<report.content>>)>>,
                   gen |-> generate_coverage_recommendations(report.content)]
    ELSE [evs |-> <<Ev(t, "coverage_completed", <<"Coverage report not found.">>)>>,
          gen |-> Gen(<<>>, FALSE)]

NoReport == [exists |-> FALSE, by |-> 0, content |-> ""]

\* The rest of a run_* method once run_command returned (e.g. analysis.py:152-155;
\* for the auto-fix commands 292, 454, 469: the recommendation, unconditionally).
run_tool_post(t) ==
    /\ isRunning(t) /\ thr[t].ph = "post"
    /\ LET r0 == thr[t]
           tool == run_order[r0.slot]
       IN  IF r0.sub = "fix" \/ tool \in autofix_tools
           THEN /\ Worker(t, Advance([r0 EXCEPT !.recommendations_list =
                                         Append(@, autofix_recommendation(tool))]), <<>>)
                /\ UNCHANGED coverage_report
           ELSE LET r == Seen(r0) IN
                IF ~reads_is_running(r)
                THEN Worker(t, Advance(r), <<>>) /\ UNCHANGED coverage_report
                ELSE \E g \in generate_recommendations(tool, r.output, r.settings) :
                       LET evs == completed_events(t, tool, r.output)
                           r2 == [r EXCEPT !.recommendations_list = @ \o g.recs]
                       IN  IF g.raised
                           THEN Failed(t, r, evs) /\ UNCHANGED coverage_report
                           ELSE IF tool = "Black"
                           THEN /\ Worker(t, [r2 EXCEPT !.ph = "fixgate"], evs)
                                /\ UNCHANGED coverage_report
                           ELSE IF tool = "Pytest"
                           THEN LET cov == process_coverage_report(t, coverage_report)
                                    r3 == [r2 EXCEPT !.recommendations_list = @ \o cov.gen.recs]
                                IN  /\ coverage_report' = NoReport
                                    /\ IF cov.gen.raised
                                       THEN Failed(t, r2, evs \o cov.evs)
                                       ELSE Worker(t, Advance(r3), evs \o cov.evs)
                           ELSE Worker(t, Advance(r2), evs) /\ UNCHANGED coverage_report
    /\ UNCHANGED <<gui_vars, metrics_file>>

\* analysis.py:286-290: the auto-fix of run_black
run_black_fixgate(t) ==
    /\ isRunning(t) /\ thr[t].ph = "fixgate"
    /\ LET r0 == thr[t]
           r == IF r0.settings.enable_autofix THEN Seen(r0) ELSE r0
       IN  IF r.settings.enable_autofix /\ reads_is_running(r)
           THEN Worker(t, [r EXCEPT !.ph = "cmd", !.sub = "fix"],
                       <<Ev(t, "progress", <<"Auto-formatting code with black...">>)>>)
           ELSE Worker(t, Advance(r), <<>>)
    /\ UNCHANGED <<gui_vars, metrics_file, coverage_report>>

\* Faulty variant: the report lists the entries last first.
final_events_reversed(t, r) ==
    <<Ev(t, "recommendations",
         [i \in DOMAIN r.recommendations_list |->
             r.recommendations_list[Len(r.recommendations_list) + 1 - i]]),
      Ev(t, "progress", <<"Analysis completed.">>),
      Ev(t, "finished", <<>>)>>

\* The events that end a run whose blocks were all passed (analysis.py:125-129),
\* and the finished signal of QThread.
final_events(t, r) ==
    <<Ev(t, "recommendations", r.recommendations_list),
      Ev(t, "progress", <<"Analysis completed.">>),
      Ev(t, "finished", <<>>)>>

\* analysis.py:125-129
run_final(t) ==
    /\ isRunning(t) /\ thr[t].ph = "gate" /\ thr[t].slot = FinalSlot
    /\ Worker(t, Finished(thr[t]), final_events(t, thr[t]))
    /\ UNCHANGED <<gui_vars, metrics_file, coverage_report>>

\* One step of the worker thread t.
WorkerStep(t) ==
    \/ run_begin(t)
    \/ run_gate(t)
    \/ run_tool_entry(t)
    \/ run_command_call(t)
    \/ run_command_return(t)
    \/ run_tool_post(t)
    \/ run_black_fixgate(t)
    \/ run_final(t)

\* ------------------------------------------------------------ AnalyzerApp

\* The step name each process_*_output slot passes to step_completed.
step_of_signal(sig) ==
    CASE sig = "lint_completed" -> "linting"
      [] sig = "typecheck_completed" -> "type checking"
      [] sig = "complexity_completed" -> "complexity"
      [] sig = "security_completed" -> "security"
      [] sig = "formatting_completed" -> "formatting"
      [] sig = "documentation_completed" -> "documentation"
      [] sig = "license_completed" -> "license"
      [] sig = "profiling_completed" -> "profiling"
      [] sig = "test_completed" -> "testing"
      [] sig = "coverage_completed" -> "coverage"
      [] sig = "dependency_audit_completed" -> "dependency audit"
      [] sig = "code_duplication_completed" -> "code duplication"
      [] sig = "documentation_generated" -> "documentation generation"

\* Whether step_completed counts the step (ui.py:676).
counts_step(step_name) == step_name \in steps

\* ui.py:675-680
step_completed(step_name) ==
    IF counts_step(step_name)
    THEN /\ completed_steps' = completed_steps + 1
         /\ progress_bar' = ((completed_steps + 1) * 100) \div total_steps
         /\ status_label' = [msg |-> <<"Completed steps.">>, k |-> completed_steps + 1,
                             n |-> total_steps]
         /\ counted' = Append(counted, step_name)
    ELSE UNCHANGED <<completed_steps, progress_bar, status_label, counted>>

\* Whether a process_*_output slot reaches its step_completed call:
\* process_license_output returns early on an empty list (ui.py:787-789).
reaches_step_completed(sig, output) ==
    ~(sig = "license_completed"
        /\ json_loads(output).ty # "JSONDecodeError"
        /\ json_loads(output).items = <<>> /\ json_loads(output).keys = {})

\* len(x) of a decoded JSON document
json_len(v) == IF v.ty = "list" THEN Len(v.items) ELSE Cardinality(v.keys)

\* The metric attributes a process_*_output slot assigns (ui.py:682-883).
issue_counts_after(sig, output) ==
    LET v == json_loads(output)
        ok == v.ty # "JSONDecodeError"
    IN  CASE sig = "lint_completed" /\ ok ->
                [issue_counts EXCEPT !.lint_issues = json_len(v)]
          [] sig = "security_completed" /\ ok ->
                [issue_counts EXCEPT !.security_issues = bandit_results(output)]
          [] sig = "formatting_completed" /\ contains(output, "would reformat") ->
                [issue_counts EXCEPT !.formatting_issues = 1]
          [] sig = "formatting_completed" /\ contains(output, "All done!") ->
                [issue_counts EXCEPT !.formatting_issues = 0]
          [] sig = "documentation_completed" ->
                [issue_counts EXCEPT !.documentation_issues = Len(NonBlank(output))]
          [] sig = "coverage_completed" /\ ok ->
                [issue_counts EXCEPT !.coverage = coverage_percent(NonBlank(output)[1])]
          [] sig = "dependency_audit_completed" /\ ok ->
                [issue_counts EXCEPT !.vulnerabilities = json_len(v)]
          [] sig = "code_duplication_completed" ->
                [issue_counts EXCEPT !.duplication_issues = Len(NonBlank(output))]
          [] OTHER -> issue_counts

\* The signals of the tools asked for JSON output, with the key of
\* self.analysis_results and the panel their slot writes (ui.py:682-871).
json_signals ==
    {"lint_completed", "complexity_completed", "security_completed",
     "license_completed", "dependency_audit_completed"}

section_of_signal(sig) ==
    CASE sig = "lint_completed" -> "Linting"
      [] sig = "complexity_completed" -> "Complexity"
      [] sig = "security_completed" -> "Security"
      [] sig = "license_completed" -> "Licenses"
      [] sig = "dependency_audit_completed" -> "Dependencies"

text_edit_of_signal(sig) ==
    CASE sig = "lint_completed" -> "lint_text"
      [] sig = "complexity_completed" -> "complexity_text"
      [] sig = "security_completed" -> "security_text"
      [] sig = "license_completed" -> "license_text"
      [] sig = "dependency_audit_completed" -> "dependency_text"

\* clear_tabs (ui.py:650-668)
NoTabText ==
    [lint_text |-> <<>>, complexity_text |-> <<>>, security_text |-> <<>>,
     license_text |-> <<>>, dependency_text |-> <<>>]

\* self.analysis_results = {}
NoResults == [section \in {} |-> <<>>]

\* The text a slot builds from a decoded document.
Formatted(output) == <<"formatted">> \o NonBlank(output)

\* Python truth value of a str: only '' is false.
is_empty_str(text) == text = <<>> \/ text = <<"">>

\* Whether the slot shows the text it was given when json.loads fails: all do
\* but process_dependency_output (ui.py:867-869).
shows_raw_on_decode_failure(sig) == sig # "dependency_audit_completed"

\* The text the slot of a JSON tool puts in its panel (ui.py:682-871).
panel_text(sig, output) ==
    LET v == json_loads(output)
        empty == v.items = <<>> /\ v.keys = {}
    IN  IF v.ty = "JSONDecodeError"
        THEN IF sig = "lint_completed" /\ is_empty_str(output)
             THEN <<"No linting issues found.">>
             ELSE IF shows_raw_on_decode_failure(sig) THEN output
             ELSE <<"Failed to parse dependency vulnerabilities.">>
        ELSE CASE sig = "lint_completed" ->
                    IF empty THEN <<"No linting issues found.">> ELSE Formatted(output)
               [] sig = "complexity_completed" ->
                    IF max_complexity(output) > settings.radon_threshold
                    THEN Formatted(output) ELSE <<"No complexity issues found.">>
               [] sig = "security_completed" ->
                    IF bandit_results(output) > 0
                    THEN Formatted(output) ELSE <<"No security issues found.">>
               [] sig = "license_completed" ->
                    IF empty THEN <<"No dependencies found.">> ELSE Formatted(output)
               [] sig = "dependency_audit_completed" ->
                    IF empty THEN <<"No dependency vulnerabilities found.">>
                    ELSE Formatted(output)

tab_text_after(sig, output) ==
    IF sig \in json_signals
    THEN [tab_text EXCEPT ![text_edit_of_signal(sig)] = panel_text(sig, output)]
    ELSE tab_text

\* self.analysis_results[section] = output
analysis_results_after(sig, output) ==
    IF sig \in json_signals
    THEN [section \in DOMAIN analysis_results \cup {section_of_signal(sig)} |->
             IF section = section_of_signal(sig) THEN output
             ELSE analysis_results[section]]
    ELSE analysis_results


\* ui.py:682-883: the process_*_output slots other than
\* process_documentation_generation_output
process_output(sig, output) ==
    /\ issue_counts' = issue_counts_after(sig, output)
    /\ tab_text' = tab_text_after(sig, output)
    /\ analysis_results' = analysis_results_after(sig, output)
    /\ IF reaches_step_completed(sig, output)
       THEN step_completed(step_of_signal(sig))
       ELSE UNCHANGED <<completed_steps, progress_bar, status_label, counted>>
    /\ UNCHANGED <<settings, steps, total_steps, select_btn, git_clone_btn, cancel_btn,
                   analysis_thread, recommendations_text, gui, msgboxes, reject_tick,
                   metrics_file, thr>>

\* ui.py:885-887: the slot shows a modal message box; the events that arrive
\* while it is open are delivered by its event loop.
process_documentation_generation_output(output) ==
    /\ msgboxes' = msgboxes + 1
    /\ UNCHANGED <<settings, steps, total_steps, completed_steps, status_label,
                   progress_bar, select_btn, git_clone_btn, cancel_btn, analysis_thread,
                   recommendations_text, issue_counts, tab_text,
                   analysis_results, gui, counted, reject_tick,
                   metrics_file, thr>>

\* ui.py:888: the message box is closed and the slot goes on
close_message_box ==
    /\ gui = "idle" /\ msgboxes > 0
    /\ msgboxes' = msgboxes - 1
    /\ step_completed("documentation generation")
    /\ UNCHANGED <<settings, steps, total_steps, select_btn, git_clone_btn, cancel_btn,
                   analysis_thread, recommendations_text, issue_counts, tab_text,
                   analysis_results, gui, reject_tick,
                   metrics_file, coverage_report, thr, queue>>

\* ui.py:670-673
update_progress(message) ==
    /\ status_label' = Label(message)
    /\ UNCHANGED <<settings, steps, total_steps, completed_steps, progress_bar,
                   select_btn, git_clone_btn, cancel_btn, analysis_thread,
                   recommendations_text, issue_counts, tab_text,
                   analysis_results, gui, msgboxes, counted,
                   reject_tick, metrics_file, thr>>

\* ui.py:890-891
process_recommendations(recommendations) ==
    /\ recommendations_text' = recommendations
    /\ UNCHANGED <<settings, steps, total_steps, completed_steps, status_label,
                   progress_bar, select_btn, git_clone_btn, cancel_btn, analysis_thread,
                   issue_counts, tab_text,
                   analysis_results, gui, msgboxes, counted, reject_tick, metrics_file, thr>>

\* Faulty variant: the snapshot counts the linter's report as one issue.
current_metrics_counts_report(data) ==
    [date |-> Len(data) + 1,
     lint_issues |-> issue_counts.lint_issues + 1,
     security_issues |-> issue_counts.security_issues,
     formatting_issues |-> issue_counts.formatting_issues,
     documentation_issues |-> issue_counts.documentation_issues,
     duplication_issues |-> issue_counts.duplication_issues,
     code_coverage |-> issue_counts.coverage,
     vulnerabilities |-> issue_counts.vulnerabilities]

\* ui.py:1281-1290, with the date taken as the position in the history
current_metrics(data) ==
    [date |-> Len(data) + 1,
     lint_issues |-> issue_counts.lint_issues,
     security_issues |-> issue_counts.security_issues,
     formatting_issues |-> issue_counts.formatting_issues,
     documentation_issues |-> issue_counts.documentation_issues,
     duplication_issues |-> issue_counts.duplication_issues,
     code_coverage |-> issue_counts.coverage,
     vulnerabilities |-> issue_counts.vulnerabilities]

\* Faulty variant: the setting is not consulted.
saves_metrics_always == TRUE

\* Whether save_metrics writes (ui.py:1270-1272).
saves_metrics == settings.enable_metrics_tracking

\* Faulty variant: the file is written with the new snapshot alone.
metrics_data_read_empty == <<>>

\* ui.py:1275-1279: the history save_metrics reads, an empty one when the
\* file does not exist
metrics_data_read == IF metrics_file.exists THEN metrics_file.data ELSE <<>>

\* ui.py:1269-1295: the file after save_metrics
metrics_file_after_save ==
    IF saves_metrics
    THEN LET metrics_data == metrics_data_read
         IN  [exists |-> TRUE, complete |-> TRUE,
              data |-> Append(metrics_data, current_metrics(metrics_data))]
    ELSE metrics_file

\* ui.py:1259-1267, run when the finished signal of thread t is delivered
analysis_finished(t) ==
    /\ progress_bar' = 100
    /\ cancel_btn' = FALSE
    /\ select_btn' = TRUE
    /\ git_clone_btn' = settings.enable_git_integration
    /\ status_label' = Label(<<"Analysis completed.">>)
    /\ metrics_file' = metrics_file_after_save
    /\ thr' = [thr EXCEPT ![t].finished_delivered = TRUE,
                          ![t].saved = @ + (IF metrics_file' # metrics_file THEN 1 ELSE 0)]
    /\ UNCHANGED <<settings, steps, total_steps, completed_steps, analysis_thread,
                   recommendations_text, issue_counts, tab_text,
                   analysis_results, gui, msgboxes, counted, reject_tick>>

\* The GUI event loop delivers the oldest queued signal to its slot.
Deliver ==
    /\ gui = "idle" /\ queue # <<>>
    /\ LET e == Head(queue)
       IN  /\ queue' = Tail(queue)
           /\ CASE e.sig = "progress" -> update_progress(e.arg)
                [] e.sig = "recommendations" -> process_recommendations(e.arg)
                [] e.sig = "finished" -> analysis_finished(e.t)
                [] e.sig = "documentation_generated" ->
                      process_documentation_generation_output(e.arg)
                [] OTHER -> process_output(e.sig, e.arg)
    /\ UNCHANGED coverage_report

\* The id of the next AnalysisThread object; MaxRuns + 1 when none is left.
next_thread ==
    IF \E t \in Threads : thr[t].state = "unborn"
    THEN CHOOSE t \in Threads :
            thr[t].state = "unborn" /\ \A u \in Threads : u < t => thr[u].state # "unborn"
    ELSE MaxRuns + 1

\* Faulty variant: a request with no steps is started like any other.
rejects_request_never(total) == FALSE

\* Whether run_analysis rejects the request (ui.py:610).
rejects_request(total) == total = 0

\* ui.py:564-637.  self.project_path is set by both callers.
run_analysis ==
    LET selected_tools == settings.selected_tools
        total == compute_total_steps(selected_tools)
    IN  /\ steps' = compute_steps(selected_tools)
        /\ total_steps' = total
        /\ analysis_results' = NoResults
        /\ tab_text' = NoTabText
        /\ recommendations_text' = <<>>
        /\ status_label' = Label(<<"Starting analysis...">>)
        /\ progress_bar' = 0
        /\ cancel_btn' = TRUE
        /\ IF rejects_request(total)
           THEN /\ reject_tick' = ~reject_tick
                /\ select_btn' = TRUE
                /\ git_clone_btn' = settings.enable_git_integration
                /\ UNCHANGED <<completed_steps, counted, analysis_thread, thr>>
           ELSE /\ next_thread \in Threads
                /\ completed_steps' = 0
                /\ counted' = <<>>
                /\ select_btn' = FALSE
                /\ git_clone_btn' = FALSE
                /\ analysis_thread' = next_thread
                /\ thr' = [t \in Threads |->
                              IF t = next_thread THEN NewThread(settings)
                              ELSE Released(thr[t])]
                /\ UNCHANGED reject_tick
        /\ UNCHANGED <<settings, issue_counts, gui, msgboxes, metrics_file,
                       coverage_report, queue>>

\* The user can press a button of the main window: the GUI thread is in its
\* event loop and no modal message box is open.
user_can_act == gui = "idle" /\ msgboxes = 0

\* ui.py:536-545.  The directory dialog is modal and runs the event loop: the
\* signals queued before it closes are delivered before run_analysis is called.
select_project ==
    /\ user_can_act /\ select_btn
    /\ queue = <<>>
    /\ run_analysis

\* ui.py:547-562, the same for the repository URL dialog
clone_from_git ==
    /\ user_can_act /\ git_clone_btn
    /\ queue = <<>>
    /\ run_analysis

\* The settings the dialog can leave in settings.json.
SavedSettings ==
    [selected_tools : {{"Pylint"}}, enable_autofix : {FALSE},
     enable_metrics_tracking : {FALSE}, enable_git_integration : {TRUE},
     radon_threshold : {10}]

\* ui.py:520-530: the Settings menu entry, which stays enabled during a run.
\* The dialog is closed with or without saving; the settings are reloaded and
\* the clone button is enabled from them, whether or not a run is in progress.
open_settings ==
    /\ user_can_act
    /\ settings' \in {settings} \cup SavedSettings
    /\ git_clone_btn' = settings'.enable_git_integration
    /\ UNCHANGED <<steps, total_steps, completed_steps, status_label, progress_bar,
                   select_btn, cancel_btn, analysis_thread, recommendations_text,
                   issue_counts, tab_text,
                   analysis_results, gui, msgboxes, counted, reject_tick, metrics_file,
                   coverage_report, thr, queue>>

\* ui.py:639-641 and analysis.py:559-561: cancel_analysis calls stop(), which
\* clears the flag and waits up to 1000 ms for the worker.
cancel_analysis ==
    /\ user_can_act /\ cancel_btn
    /\ analysis_thread \in Threads /\ isRunning(analysis_thread)
    /\ thr' = [thr EXCEPT ![analysis_thread].is_running = FALSE]
    /\ gui' = "stop"
    /\ UNCHANGED <<settings, steps, total_steps, completed_steps, status_label,
                   progress_bar, select_btn, git_clone_btn, cancel_btn, analysis_thread,
                   recommendations_text, issue_counts, tab_text,
                   analysis_results, msgboxes, counted, reject_tick,
                   metrics_file, coverage_report, queue>>

\* ui.py:642-648: cancel_analysis after stop() has returned
cancel_analysis_rest ==
    /\ status_label' = Label(<<"Analysis canceled.">>)
    /\ progress_bar' = 0
    /\ cancel_btn' = FALSE
    /\ select_btn' = TRUE
    /\ git_clone_btn' = settings.enable_git_integration
    /\ gui' = "idle"
    /\ UNCHANGED <<settings, steps, total_steps, completed_steps, analysis_thread,
                   recommendations_text, issue_counts, tab_text,
                   analysis_results, msgboxes, counted, reject_tick,
                   metrics_file, coverage_report>>

\* analysis.py:561-562: the worker ended within the wait
stop_returns ==
    /\ gui = "stop" /\ ~isRunning(analysis_thread)
    /\ cancel_analysis_rest
    /\ UNCHANGED <<thr, queue>>

\* Faulty variant: terminate() is called whatever isRunning() says.
terminates_after_wait_always(t) == TRUE

\* analysis.py:562: "if self.isRunning():" after the wait
terminates_after_wait(t) == isRunning(t)

\* analysis.py:562-565: run() has not returned when the wait ends, wherever
\* the worker is; terminate() ends the thread, and QThread emits finished.
stop_terminates ==
    /\ gui = "stop" /\ terminates_after_wait(analysis_thread)
    /\ thr' = [thr EXCEPT ![analysis_thread].state = "terminated"]
    /\ queue' = Append(queue, Ev(analysis_thread, "finished", <<>>))
    /\ cancel_analysis_rest

\* ---------------------------------------------------------- specification

\* The tool selections a behaviour starts from.
Selections ==
    {{}} \cup {{tool} : tool \in available_tools}
         \cup {{"Pylint", "Flake8"}, {"Autopep8", "Isort"}, {"Pytest", "Coverage"}}

\* ui.py:232-241: the settings the claims depend on; auto-fix is switched on
\* with the selections that hold a tool it acts on (analysis.py:286, 109-113).
SettingsChoices ==
    {st \in [selected_tools : Selections, enable_autofix : BOOLEAN,
             enable_metrics_tracking : BOOLEAN, enable_git_integration : {FALSE},
             radon_threshold : {10}] :
        st.enable_autofix => st.selected_tools \cap {"Black", "Autopep8", "Isort"} # {}}

NoIssues ==
    [lint_issues |-> 0, security_issues |-> 0, formatting_issues |-> 0,
     documentation_issues |-> 0, duplication_issues |-> 0, coverage |-> 0,
     vulnerabilities |-> 0]

\* metrics.json: data is the list it holds; complete is false for a file whose
\* text stops before the end of the document.
NoMetricsFile == [exists |-> FALSE, data |-> <<>>, complete |-> TRUE]

\* AnalyzerApp.__init__ (ui.py:194-222) with the given settings; at most
\* runs start requests will be accepted
InitWith(st, runs) ==
    /\ settings = st
    /\ steps = {} /\ total_steps = 0 /\ completed_steps = 0
    /\ status_label = Label(<<"Ready">>)
    /\ progress_bar = 0
    /\ select_btn = TRUE
    /\ git_clone_btn = st.enable_git_integration
    /\ cancel_btn = FALSE
    /\ analysis_thread = 0
    /\ recommendations_text = <<>>
    /\ issue_counts = NoIssues
    /\ tab_text = NoTabText
    /\ analysis_results = NoResults
    /\ gui = "idle" /\ msgboxes = 0
    /\ metrics_file = NoMetricsFile
    /\ coverage_report = NoReport
    /\ thr = [t \in Threads |-> IF t <= runs THEN Unborn ELSE Unused]
    /\ queue = <<>>
    /\ counted = <<>>
    /\ reject_tick = FALSE

Init == \E st \in SettingsChoices : InitWith(st, MaxRunsAnySettings)

Next ==
    \/ select_project
    \/ cancel_analysis
    \/ stop_returns
    \/ stop_terminates
    \/ Deliver
    \/ close_message_box
    \/ \E t \in Threads : WorkerStep(t)

Spec == Init /\ [][Next]_vars

\* The start request alone, for every selection from the catalog.
InitSteps ==
    \E sel \in SUBSET available_tools :
        InitWith([selected_tools |-> sel, enable_autofix |-> FALSE,
                  enable_metrics_tracking |-> FALSE, enable_git_integration |-> FALSE,
                  radon_threshold |-> 10], MaxRunsAnySettings)

NextSteps == select_project

SpecSteps == InitSteps /\ [][NextSteps]_vars

\* Git integration enabled and the settings dialog in use.  The GUI thread is
\* taken to keep up with the workers: a worker emits only while fewer than
\* MaxPending signals wait in the queue.
InitReentry == \E st \in SavedSettings : InitWith(st, MaxRuns)

NextReentry ==
    \/ select_project
    \/ clone_from_git
    \/ open_settings
    \/ Deliver
    \/ close_message_box
    \/ \E t \in Threads : Len(queue) < MaxPending /\ WorkerStep(t)

SpecReentry == InitReentry /\ [][NextReentry]_vars

\* ------------------------------------------------------------------- runs

\* The run of thread t has ended and the GUI thread has handled its finished
\* signal, which is the last signal a thread queues.
RunOver(t) == thr[t].state \in {"finished", "terminated"} /\ thr[t].finished_delivered

\* run() passed every block with the flag never cleared and no exception.
Completed(t) == thr[t].state = "finished" /\ thr[t].is_running /\ ~thr[t].failed

\* stop() cleared the flag, the worker read it cleared and run() returned.
CancelledCooperatively(t) ==
    thr[t].state = "finished" /\ thr[t].observed /\ ~thr[t].failed

\* stop() ended the thread with terminate().
Terminated(t) == thr[t].state = "terminated"

\* The progress signal of analysis.py:133 is queued or was the last handled.
FailureReported(t) ==
    \/ \E i \in DOMAIN queue : queue[i] = Ev(t, "progress", <<"Error: exception">>)
    \/ status_label = Label(<<"Error: exception">>)
    \/ thr[t].finished_delivered

Occurrences(seq, x) == Cardinality({i \in DOMAIN seq : seq[i] = x})

\* ----------------------------------------------------------------- claims

\* C1: a run cancelled cooperatively (the worker saw the cleared flag and
\* returned from run() by itself) appends no snapshot to the metrics history.
C1_CancelledRunAppendsNoSnapshot ==
    \A t \in Threads : CancelledCooperatively(t) => thr[t].saved = 0

\* C2: a run whose worker was ended by terminate() writes nothing to the
\* metrics history.
C2_TerminatedRunWritesNoMetrics ==
    \A t \in Threads : Terminated(t) => thr[t].saved = 0

\* C3: a run that failed (an exception reached the except clause of run())
\* reports the failure on the progress signal and appends no snapshot.
C3_FailedRunReportsAndAppendsNoSnapshot ==
    \A t \in Threads : thr[t].failed => FailureReported(t) /\ thr[t].saved = 0

\* C4: a run that completed emits the final recommendations once, the GUI shows
\* them, and once its finished signal is handled exactly one snapshot has been
\* appended if enable_metrics_tracking is set, and none if it is not.
C4_CompletedRunReportsAndSavesOnce ==
    \A t \in Threads :
        Completed(t) =>
            /\ Occurrences(thr[t].emitted, "recommendations") = 1
            /\ RunOver(t) =>
                  /\ thr[t].saved = (IF settings.enable_metrics_tracking THEN 1 ELSE 0)
                  /\ analysis_thread = t => recommendations_text = thr[t].recommendations_list

C4_Witness ==
    \E t \in Threads :
        /\ Completed(t) /\ RunOver(t)
        /\ settings.enable_metrics_tracking /\ thr[t].saved = 1
        /\ metrics_file.exists /\ Len(metrics_file.data) = 1
        /\ thr[t].recommendations_list # <<>>

\* C5: once a run in which cancellation was requested has ended and all its
\* signals are handled, the status shown is the cancelled one.
C5_CancelledRunReportedCanceled ==
    \A t \in Threads :
        (RunOver(t) /\ ~thr[t].is_running /\ analysis_thread = t /\ gui = "idle")
            => status_label = Label(<<"Analysis canceled.">>)

\* C6: after the worker has read the flag cleared it launches no further
\* subprocess, and a run whose flag was cleared before run() began launches
\* none and collects no recommendation.
C6_NoLaunchAfterFlagObserved ==
    /\ [](\A t \in Threads :
            thr[t].cancelled_at_start =>
                thr[t].launched = <<>> /\ thr[t].recommendations_list = <<>>)
    /\ [][\A t \in Threads :
            (thr[t].observed /\ thr'[t].state # "released")
                => thr'[t].launched = thr[t].launched]_vars

C6_Witness ==
    \E t \in Threads :
        /\ thr[t].state = "finished" /\ thr[t].observed
        /\ thr[t].settings.selected_tools = {"Pylint", "Flake8"}
        /\ thr[t].launched = <<(<<"Pylint", "main">>)>>

\* C7: the completed-step count never exceeds the total step count, and no
\* step name is counted complete twice since the last start.
C7_CompletedWithinTotal ==
    /\ completed_steps <= total_steps
    /\ \A i, j \in DOMAIN counted : counted[i] = counted[j] => i = j

\* C8: after a start request the total step count is the number of distinct
\* step names the selected tools map to.
C8_TotalIsDistinctSteps ==
    (analysis_thread # 0 \/ reject_tick) =>
        total_steps =
            Cardinality(UNION {tools_to_steps[tool] : tool \in settings.selected_tools})

C8_Witness ==
    /\ analysis_thread # 0
    /\ settings.selected_tools = {"Pylint", "Flake8", "Black", "Autopep8", "Isort"}
    /\ total_steps = 2

\* C9: when a run that was not cancelled and did not fail is over, every step
\* of the selection has been counted: the completed-step count is the total.
C9_CompletedRunCountsEveryStep ==
    \A t \in Threads :
        (Completed(t) /\ RunOver(t) /\ analysis_thread = t /\ msgboxes = 0)
            => completed_steps = total_steps

\* C10: a start request whose total step count is zero is rejected: it creates
\* and starts no thread, queues no signal, writes no snapshot, and a thread is
\* started only by a request whose total is positive.
C10_ZeroStepRequestRejected ==
    [][/\ (reject_tick' # reject_tick) =>
              /\ total_steps' = 0
              /\ thr' = thr /\ analysis_thread' = analysis_thread
              /\ queue' = queue /\ metrics_file' = metrics_file
       /\ \A t \in Threads :
              (thr[t].state # "running" /\ thr'[t].state = "running")
                  => total_steps' > 0]_vars

C10_Witness ==
    /\ reject_tick /\ settings.selected_tools = {}
    /\ analysis_thread = 0 /\ \A t \in Threads : thr[t].state \in {"unborn", "unused"}
    /\ queue = <<>> /\ ~metrics_file.exists

\* C11: a tool whose executable the availability check found missing is never
\* handed to run_command in that run (neither its check nor its rewrite), and
\* the worker has reported it missing on the progress signal.
C11_MissingToolNeverInvoked ==
    \A t \in Threads : \A tool \in thr[t].missing :
        /\ \A i \in DOMAIN thr[t].launched : thr[t].launched[i][1] # tool
        /\ executable(tool) \in thr[t].reported_missing

C11_Witness ==
    \E t \in Threads :
        /\ thr[t].state = "finished" /\ thr[t].is_running
        /\ thr[t].missing = {"Autopep8"}
        /\ thr[t].launched = <<(<<"Isort", "main">>)>>

\* The steps that the completion signals among evs mark complete.
StepsSignalled(evs) ==
    {step_of_signal(evs[i].sig) :
        i \in {j \in DOMAIN evs : evs[j].sig \notin {"progress", "recommendations", "finished"}}}

\* C12: a tool found missing does not fail the run, and what the worker emits
\* for the missing tool marks the tool's own step complete.
C12_MissingToolAdvancesOwnStep ==
    \A t \in Threads : \A tool \in thr[t].missing :
        /\ ~thr[t].failed
        /\ tools_to_steps[tool] \subseteq StepsSignalled(not_available_events(t, tool))

\* The tools whose block run() enters when the flag stays set, in run() order.
EnabledTools(r) ==
    {tool \in r.settings.selected_tools :
        /\ \E i \in 1..(FinalSlot - 1) : run_order[i] = tool
        /\ tool \in autofix_tools => r.settings.enable_autofix}

SlotOf(tool) == CHOOSE i \in DOMAIN run_order : run_order[i] = tool

\* C13: no outcome of a tool invocation (missing, timeout, non-zero exit, launch
\* failure) ends the run: a run fails only inside an adapter working on a payload
\* that decoded as JSON, and a run that was not cancelled and did not fail has
\* processed every enabled tool, in the order of run(), and emitted the final
\* recommendations.
C13_ToolFailureDoesNotAbortRun ==
    \A t \in Threads :
        /\ thr[t].failed => json_loads(thr[t].output).ty # "JSONDecodeError"
        /\ (thr[t].state = "finished" /\ thr[t].is_running /\ ~thr[t].failed) =>
              /\ Occurrences(thr[t].emitted, "recommendations") = 1
              /\ {thr[t].outcomes[i][1] : i \in DOMAIN thr[t].outcomes} = EnabledTools(thr[t])
              /\ \A i, j \in DOMAIN thr[t].outcomes :
                    i < j => SlotOf(thr[t].outcomes[i][1]) <= SlotOf(thr[t].outcomes[j][1])

C13_Witness ==
    \E t \in Threads :
        /\ thr[t].state = "finished" /\ thr[t].is_running /\ ~thr[t].failed
        /\ thr[t].outcomes = <<(<<"Pylint", "timeout">>), (<<"Flake8", "nonzero">>)>>
        /\ Occurrences(thr[t].emitted, "recommendations") = 1

\* C14: whatever the shape of the payloads that decoded as JSON, a run that was
\* not cancelled processes every enabled tool and emits the final
\* recommendations.
C14_UnexpectedShapeDoesNotAbortRun ==
    \A t \in Threads :
        (thr[t].state = "finished" /\ thr[t].is_running) =>
            /\ Occurrences(thr[t].emitted, "recommendations") = 1
            /\ {thr[t].outcomes[i][1] : i \in DOMAIN thr[t].outcomes} = EnabledTools(thr[t])
\* The tool whose output a signal of json_signals carries.
json_tool_of_signal(sig) ==
    CASE sig = "lint_completed" -> "Pylint"
      [] sig = "complexity_completed" -> "Radon"
      [] sig = "security_completed" -> "Bandit"
      [] sig = "license_completed" -> "Pip-Licenses"
      [] sig = "dependency_audit_completed" -> "Pip-Audit"

\* The texts run_command can return for the process of a tool.
tool_outputs(tool) == {run_command_output(proc) : proc \in process_results(tool, "main")}

\* A JSON tool returned non-empty text that json.loads rejects, and its slot
\* has handled it.
UndecodableResult(sig) ==
    /\ section_of_signal(sig) \in DOMAIN analysis_results
    /\ analysis_results[section_of_signal(sig)] \in tool_outputs(json_tool_of_signal(sig))
    /\ ~is_blank(analysis_results[section_of_signal(sig)])
    /\ json_loads(analysis_results[section_of_signal(sig)]).ty = "JSONDecodeError"

\* C15: when a JSON tool (pylint, radon, bandit, pip-licenses, pip-audit)
\* returns text that fails JSON decoding, the result shown for the tool is
\* the entire raw text, and the failure does not fail the run.
C15_UndecodableOutputShownRaw ==
    /\ \A sig \in json_signals :
          UndecodableResult(sig) =>
             tab_text[text_edit_of_signal(sig)] = analysis_results[section_of_signal(sig)]
    /\ \A t \in Threads :
          thr[t].failed => json_loads(thr[t].output).ty = "list"

\* The same for the four tools other than pip-audit.
C15_OthersShownRaw ==
    \A sig \in json_signals \ {"dependency_audit_completed"} :
          UndecodableResult(sig) =>
             tab_text[text_edit_of_signal(sig)] = analysis_results[section_of_signal(sig)]

C15_OthersWitness == UndecodableResult("security_completed")

\* The completion signals and the recommendations signal in the order the
\* class declares them (analysis.py:30-43); nothing emits profiling_completed.
signal_order ==
    <<"lint_completed", "typecheck_completed", "complexity_completed",
      "security_completed", "formatting_completed", "documentation_completed",
      "license_completed", "test_completed", "coverage_completed",
      "dependency_audit_completed", "code_duplication_completed",
      "documentation_generated", "recommendations">>

Rank(sig) == CHOOSE i \in DOMAIN signal_order : signal_order[i] = sig

\* The completion and recommendations signals a thread has emitted, in order.
Completions(r) == SelectSeq(r.emitted, LAMBDA sig : sig \notin {"progress", "finished"})

\* C16: within a run the per-step completion signals are emitted in the
\* declared order (linting, type checking, complexity, security, formatting,
\* documentation, licenses, testing, coverage, dependency audit, duplication,
\* documentation generation), never reordered or interleaved, and the
\* recommendations signal comes after every one of them.
C16_CompletionsInDeclaredOrder ==
    \A t \in Threads :
        LET emitted == Completions(thr[t])
        IN  \A i \in 1..(Len(emitted) - 1) : Rank(emitted[i]) <= Rank(emitted[i + 1])

C16_Witness ==
    \E t \in Threads :
        /\ Completions(thr[t]) = signal_order
        /\ thr[t].launched = <<(<<"Pytest", "main">>)>>

\* C17: in every run each per-step completion signal and the recommendations
\* signal is emitted exactly once, whatever the tool outcomes and whenever
\* cancellation is requested.  Stated for the runs whose run() returned by
\* itself without an exception, which leaves out the threads ended by
\* terminate() and the runs ended by the except clause.
C17_EverySignalExactlyOnce ==
    \A t \in Threads :
        (thr[t].state = "finished" /\ ~thr[t].failed) =>
            \A k \in DOMAIN signal_order :
                Occurrences(thr[t].emitted, signal_order[k]) = 1

\* No signal is emitted twice, and a run that passed every block with the
\* flag set and without exception emitted each once.
C17_NeverTwiceAndOnceIfCompleted ==
    \A t \in Threads : \A k \in DOMAIN signal_order :
        /\ Occurrences(thr[t].emitted, signal_order[k]) <= 1
        /\ Completed(t) => Occurrences(thr[t].emitted, signal_order[k]) = 1

\* C18: within one run tool invocations are strictly sequential: at most one
\* child process started by the worker is in flight at any moment, and the
\* worker is past run_command only when no child of its own is left running.
C18_OneChildInFlight ==
    \A t \in Threads :
        thr[t].inflight = IF thr[t].ph = "inflight" THEN 1 ELSE 0

\* C18, the launch: a tool is launched only when every earlier child of the
\* run has ended.
C18_LaunchAfterReturn ==
    [][\A t \in Threads :
          Len(thr'[t].launched) > Len(thr[t].launched) => thr[t].inflight = 0]_vars

C18_Witness ==
    \E t \in Threads :
        /\ thr[t].state = "running" /\ thr[t].ph = "inflight"
        /\ thr[t].launched = <<(<<"Pylint", "main">>), (<<"Flake8", "main">>)>>
        /\ thr[t].outcomes = <<(<<"Pylint", "timeout">>)>>

\* C19: cancellation is two-phase: stop() clears the flag and waits, and
\* terminates the worker only if it is still running after the wait; the
\* worker is not running when stop() returns; and a worker that reached a
\* step boundary within the wait, that is, read the cleared flag, is never
\* terminated.
C19_BoundaryReachedNeverTerminated ==
    /\ \A t \in Threads : thr[t].state = "terminated" => ~thr[t].is_running
    /\ gui = "idle" /\ analysis_thread \in Threads /\ ~cancel_btn
          => ~isRunning(analysis_thread) \/ thr[analysis_thread].is_running
    /\ \A t \in Threads : thr[t].state = "terminated" => ~thr[t].observed

\* C19 as amended: a thread is terminated only after its flag was cleared,
\* once stop() has returned the worker it was called on is not running, and a
\* worker whose run() has returned is never terminated.
C19_StoppedWorkerNeverTerminated ==
    /\ [](\A t \in Threads : thr[t].state = "terminated" => ~thr[t].is_running)
    /\ [](\A t \in Threads : (gui = "idle" /\ ~thr[t].is_running) => ~isRunning(t))
    /\ [][\A t \in Threads :
             thr[t].state = "finished" => thr'[t].state # "terminated"]_vars

C19_Witness ==
    \E t \in Threads :
        /\ thr[t].state = "finished" /\ thr[t].observed
        /\ thr[t].launched = <<(<<"Pylint", "main">>)>>
        /\ gui = "idle" /\ ~cancel_btn /\ analysis_thread = t

\* run_command has just returned to the run_* method of the thread's current
\* tool from a process that exited non-zero.
ReturnedNonZero(r) ==
    /\ r.state = "running" /\ r.ph = "post" /\ r.sub = "main"
    /\ r.outcomes # <<>>
    /\ r.outcomes[Len(r.outcomes)] = <<run_order[r.slot], "nonzero">>

\* C20: when a tool process exits non-zero, run_command returns both the
\* captured stdout and the captured stderr, the run is not failed, and the
\* run_* method (unless it reads the flag cleared) emits the tool's completion
\* signal with that output and a recommendation for the tool is generated.
C20_NonZeroExitYieldsRecommendation ==
    /\ [](\A t \in Threads :
            ReturnedNonZero(thr[t]) =>
               /\ ~thr[t].failed
               /\ \E proc \in process_results(run_order[thr[t].slot], "main") :
                     /\ proc.exit = "nonzero"
                     /\ thr[t].output = <<proc.stdout, proc.stderr>>)
    /\ [][\A t \in Threads :
            (/\ ReturnedNonZero(thr[t]) /\ thr[t].is_running
             /\ run_order[thr[t].slot] \notin autofix_tools
             /\ thr'[t] # thr[t] /\ thr'[t].is_running)
            => /\ ~thr'[t].failed
               /\ thr'[t].emitted # thr[t].emitted
               /\ Len(thr'[t].recommendations_list) > Len(thr[t].recommendations_list)]_vars

\* What holds of a non-zero exit: both streams are returned, the run is not
\* failed, the completion signal carries the returned text and the text is
\* handed to the recommendation generator, which may add nothing.
C20_NonZeroExitForwarded ==
    /\ [](\A t \in Threads :
            ReturnedNonZero(thr[t]) =>
               /\ ~thr[t].failed
               /\ \E proc \in process_results(run_order[thr[t].slot], "main") :
                     /\ proc.exit = "nonzero"
                     /\ thr[t].output = <<proc.stdout, proc.stderr>>)
    /\ [][\A t \in Threads :
            (/\ ReturnedNonZero(thr[t]) /\ thr[t].is_running
             /\ run_order[thr[t].slot] \notin autofix_tools
             /\ thr'[t] # thr[t] /\ thr'[t].is_running)
            => /\ ~thr'[t].failed
               /\ thr'[t].emitted # thr[t].emitted
               /\ run_order[thr[t].slot] # "Documentation Generation" =>
                     \E i \in DOMAIN queue' :
                        queue'[i] = Ev(t, completed_signal(run_order[thr[t].slot]),
                                       thr[t].output)
               /\ \E g \in generate_recommendations(run_order[thr[t].slot],
                                                    thr[t].output, thr[t].settings) :
                     SubSeq(thr'[t].recommendations_list, 1,
                               Len(thr[t].recommendations_list) + Len(g.recs))
                           = thr[t].recommendations_list \o g.recs]_vars

C20_ForwardedWitness ==
    \E t \in Threads :
        /\ thr[t].state = "finished" /\ ~thr[t].failed
        /\ thr[t].outcomes = <<(<<"Bandit", "nonzero">>)>>
        /\ Occurrences(thr[t].emitted, "security_completed") = 1
        /\ \E i \in DOMAIN queue : queue[i].sig = "security_completed"
              /\ queue[i].arg = <<"{results:[B101,B102]}", "[main] INFO running">>

\* The step emitted a message on the progress signal of thread t.
ProgressEmitted(t) ==
    \E i \in (Len(queue) + 1)..Len(queue') :
        queue'[i].t = t /\ queue'[i].sig = "progress"

\* The step of thread t classified its tool as missing, timed out, exited
\* non-zero or not launched.
StepFailureClassified(t) ==
    /\ Len(thr'[t].outcomes) = Len(thr[t].outcomes) + 1
    /\ thr'[t].outcomes[Len(thr'[t].outcomes)][2] # "zero"

\* The step of thread t handed text that json.loads rejects to the generator
\* of a JSON tool.
StepParseError(t) ==
    /\ thr[t].state = "running" /\ thr[t].ph = "post" /\ thr[t].sub = "main"
    /\ thr[t].is_running /\ thr'[t].is_running /\ thr'[t] # thr[t]
    /\ completed_signal(run_order[thr[t].slot]) \in json_signals
    /\ json_loads(thr[t].output).ty = "JSONDecodeError"

\* C21: every failure classification of a step (tool missing, timeout,
\* non-zero exit, parse error, internal error) produces a message on the
\* progress signal.
C21_EveryFailureReportedOnProgress ==
    [][\A t \in Threads :
          (StepFailureClassified(t) \/ StepParseError(t)) => ProgressEmitted(t)]_vars

\* The same without the parse errors.
C21_ProcessFailuresReportedOnProgress ==
    [][\A t \in Threads : StepFailureClassified(t) => ProgressEmitted(t)]_vars

\* ------------------------------------------- two executions of one adapter

\* A worker that has just got output back from run_command for tool.
AtAdapter(st, tool, output) ==
    [NewThread(st) EXCEPT !.slot = SlotOf(tool), !.ph = "post", !.output = output]

\* Two workers, each in an interpreter of its own, stand before the same
\* adapter with the same output and the same settings.
InitAdapters ==
    \E st \in SettingsChoices :
    \E tool \in st.selected_tools \cap {run_order[i] : i \in 1..(FinalSlot - 1)} :
    \E proc \in all_process_results(tool, "main") :
        /\ settings = st
        /\ steps = {} /\ total_steps = 0 /\ completed_steps = 0
        /\ status_label = Label(<<"Ready">>)
        /\ progress_bar = 0
        /\ select_btn = TRUE
        /\ git_clone_btn = st.enable_git_integration
        /\ cancel_btn = FALSE
        /\ analysis_thread = 0
        /\ recommendations_text = <<>>
        /\ issue_counts = NoIssues
        /\ tab_text = NoTabText
        /\ analysis_results = NoResults
        /\ gui = "idle" /\ msgboxes = 0
        /\ metrics_file = NoMetricsFile
        /\ coverage_report = NoReport
        /\ thr = [t \in Threads |->
                    IF t <= 2 THEN AtAdapter(st, tool, run_command_output(proc))
                    ELSE Unused]
        /\ queue = <<>>
        /\ counted = <<>>
        /\ reject_tick = FALSE

NextAdapters == \E t \in Threads : run_tool_post(t)

SpecAdapters == InitAdapters /\ [][NextAdapters]_vars

\* C22: recommendation generation is deterministic: two executions of the
\* same adapter on the same raw output and the same settings append the same
\* entries in the same order.
C22_AdapterDeterministic ==
    (\A t \in 1..2 : thr[t].ph # "post") =>
        thr[1].recommendations_list = thr[2].recommendations_list

\* The same for every adapter but the one of pylint.
C22_OtherAdaptersDeterministic ==
    (/\ \A t \in 1..2 : thr[t].ph # "post"
     /\ "Pylint" \notin settings.selected_tools) =>
        thr[1].recommendations_list = thr[2].recommendations_list

\* The commands that rewrite the project in place: "black ." (the second
\* command of run_black), "autopep8 --in-place" and "isort .".
rewrites_in_place(tool, sub) == sub = "fix" \/ tool \in autofix_tools

\* The thread is inside the part of a run_* method that runs a rewriting command.
AtRewrite(r) ==
    /\ r.state = "running" /\ r.ph \in {"cmd", "inflight", "post"}
    /\ rewrites_in_place(run_order[r.slot], r.sub)

\* C23: the rewriting commands are launched only in runs whose enable_autofix
\* is true; a rewriting command that ran is recorded as a recommendation entry
\* of its own, and it emits no completion signal.
C23_RewritesOnlyWithAutofix ==
    /\ [](\A t \in Threads : \A i \in DOMAIN thr[t].launched :
            rewrites_in_place(thr[t].launched[i][1], thr[t].launched[i][2]) =>
               /\ thr[t].settings.enable_autofix
               /\ thr[t].state = "finished" =>
                     \E k \in DOMAIN thr[t].recommendations_list :
                        thr[t].recommendations_list[k]
                           = autofix_recommendation(thr[t].launched[i][1]))
    /\ [][\A t \in Threads :
            AtRewrite(thr[t]) => thr'[t].emitted = thr[t].emitted]_vars

C23_Witness ==
    \E t \in Threads :
        /\ thr[t].state = "finished" /\ thr[t].is_running
        /\ thr[t].launched = <<(<<"Black", "main">>), (<<"Black", "fix">>)>>
        /\ thr[t].recommendations_list[2] = "Black: Code formatted automatically."

\* ------------------------------------------------- the metrics history

\* Runs of one project with one tool selected, the linter or the formatter,
\* and metrics tracking on.
InitMetrics ==
    \E tool \in {"Pylint", "Black"} :
        InitWith([selected_tools |-> {tool}, enable_autofix |-> FALSE,
                  enable_metrics_tracking |-> TRUE, enable_git_integration |-> FALSE,
                  radon_threshold |-> 10], MaxRuns)

SpecMetrics == InitMetrics /\ [][Next]_vars

\* C24: save_metrics creates the history when there is none and otherwise
\* keeps every stored snapshot unchanged and in place, adding exactly one
\* snapshot at the end; the history is append-only over the runs.
C24_HistoryAppendOnly ==
    [][metrics_file' # metrics_file =>
          /\ metrics_file'.exists
          /\ Len(metrics_file'.data) = Len(metrics_file.data) + 1
          /\ SubSeq(metrics_file'.data, 1, Len(metrics_file.data)) = metrics_file.data
          /\ ~metrics_file.exists => metrics_file.data = <<>>]_vars

C24_Witness ==
    /\ metrics_file.exists /\ Len(metrics_file.data) = 2
    /\ metrics_file.data[1].formatting_issues # metrics_file.data[2].formatting_issues

\* ui.py:1294-1295: open(metrics_file, 'w') empties the file and json.dump
\* then writes the list piece by piece.  The files a process that dies in
\* between leaves: the text of the first k snapshots, without its end.
torn_metrics_files ==
    LET metrics_data == metrics_file_after_save.data
    IN  {[exists |-> TRUE, complete |-> FALSE, data |-> SubSeq(metrics_data, 1, k)] :
            k \in 0..(Len(metrics_data) - 1)}

\* The process dies inside save_metrics, called by analysis_finished
\* (ui.py:1259-1267), while the file is being rewritten; its threads die with it.
crash_in_save_metrics ==
    /\ gui = "idle" /\ queue # <<>> /\ Head(queue).sig = "finished"
    /\ saves_metrics
    /\ metrics_file' \in torn_metrics_files
    /\ gui' = "crashed"
    /\ queue' = <<>>
    /\ thr' = [t \in Threads |->
                 IF isRunning(t) THEN [thr[t] EXCEPT !.state = "terminated"] ELSE thr[t]]
    /\ UNCHANGED <<settings, steps, total_steps, completed_steps, status_label,
                   progress_bar, select_btn, git_clone_btn, cancel_btn, analysis_thread,
                   recommendations_text, issue_counts, tab_text, analysis_results,
                   msgboxes, counted, reject_tick, coverage_report>>

\* Runs that are left to complete, and the crash.
NextCrash ==
    \/ select_project
    \/ Deliver
    \/ close_message_box
    \/ \E t \in Threads : WorkerStep(t)
    \/ crash_in_save_metrics

SpecCrash == InitMetrics /\ [][NextCrash]_vars

\* C25: a crash at any point of the rewrite of the metrics history leaves
\* every snapshot stored before intact and readable: the stored history is
\* always the old one or the old one plus the new snapshot.
C25_CrashKeepsHistory ==
    [][(metrics_file.exists /\ metrics_file.complete) =>
          /\ metrics_file'.exists /\ metrics_file'.complete
          /\ Len(metrics_file'.data) \in {Len(metrics_file.data), Len(metrics_file.data) + 1}
          /\ SubSeq(metrics_file'.data, 1, Len(metrics_file.data)) = metrics_file.data]_vars

\* The block of run() whose code appends a recommendation entry
\* (analysis.py:157-521); the coverage entries come from run_pytest.
recommendation_tool(entry) ==
    CASE entry \in {"Pylint: No issues found. Great job!",
                    "Pylint: Address convention issues for better code quality.",
                    "Pylint: Address error issues for better code quality."} -> "Pylint"
      [] entry \in {"Mypy: No type issues found. Excellent!",
                    "Mypy: Consider adding type annotations to improve code reliability."}
            -> "Mypy"
      [] entry \in {"Radon: Simplify complex functions to reduce cognitive load.",
                    "Radon: Code complexity is within acceptable limits."} -> "Radon"
      [] entry \in {"Bandit: Address the identified security issues to secure your code.",
                    "Bandit: No security issues found. Good job!"} -> "Bandit"
      [] entry \in {"Black: Code formatted automatically.",
                    "Black: Code is properly formatted.",
                    "Black: Consider formatting your code for better readability."}
            -> "Black"
      [] entry \in {"Pydocstyle: Documentation complies with style guidelines.",
                    "Pydocstyle: Improve docstrings to enhance code maintainability."}
            -> "Pydocstyle"
      [] entry \in {"Pip-Licenses: All dependencies have compliant licenses.",
                    "Pip-Licenses: Review licenses of b for compliance."} -> "Pip-Licenses"
      [] entry \in {"Pytest: No tests found. Consider adding tests to improve code reliability.",
                    "Pytest: Tests executed. Review test results for failures.",
                    "Coverage: Code coverage is 0.00%. Aim for at least 80%.",
                    "Coverage: Good job! Code coverage is 85.00%."} -> "Pytest"
      [] entry \in {"Pip-Audit: Update dependencies to address vulnerabilities.",
                    "Pip-Audit: No vulnerabilities found in dependencies."} -> "Pip-Audit"
      [] entry = "Autopep8: Code auto-formatted to comply with PEP 8." -> "Autopep8"
      [] entry = "Isort: Imports sorted according to style guidelines." -> "Isort"
      [] entry \in {"Flake8: No code duplication issues found.",
                    "Flake8: Consider refactoring duplicated code to improve maintainability."}
            -> "Flake8"
      [] entry \in {"Documentation: Failed to generate documentation.",
                    "Documentation: Project documentation generated using pdoc."}
            -> "Documentation Generation"

\* C26: during a run the recommendation list is append-only, and the final
\* report lists the entries in the order in which their tools ran.
C26_RecommendationsAppendOnlyInRunOrder ==
    /\ [](\A t \in Threads :
            \A k \in 1..(Len(thr[t].recommendations_list) - 1) :
               SlotOf(recommendation_tool(thr[t].recommendations_list[k]))
                  <= SlotOf(recommendation_tool(thr[t].recommendations_list[k + 1])))
    /\ [](\A i \in DOMAIN queue :
            queue[i].sig = "recommendations" =>
               queue[i].arg = thr[queue[i].t].recommendations_list)
    /\ [][\A t \in Threads :
            (thr[t].state = "running" /\ thr'[t].state # "released") =>
               /\ Len(thr'[t].recommendations_list) >= Len(thr[t].recommendations_list)
               /\ SubSeq(thr'[t].recommendations_list, 1, Len(thr[t].recommendations_list))
                     = thr[t].recommendations_list]_vars

C26_Witness ==
    \E t \in Threads : \E i \in DOMAIN queue :
        /\ queue[i] = Ev(t, "recommendations", thr[t].recommendations_list)
        /\ Len(thr[t].recommendations_list) = 2
        /\ recommendation_tool(thr[t].recommendations_list[1]) = "Pylint"
        /\ recommendation_tool(thr[t].recommendations_list[2]) = "Flake8"

\* The worker has reached a terminal state: run() has returned or the thread
\* was terminated.
Terminal(r) == r.state \in {"finished", "terminated"}

\* C27: terminal states are final and every run starts from fresh run state: a
\* start request that is accepted creates a new worker with the cancellation
\* flag clear, an empty recommendation list and completed-step count 0, and a
\* worker that has reached a terminal state is never restarted or resumed.
C27_FreshStartAndTerminalFinal ==
    [][/\ analysis_thread' # analysis_thread =>
            /\ thr[analysis_thread'].state = "unborn"
            /\ thr'[analysis_thread'].state = "running"
            /\ thr'[analysis_thread'].is_running
            /\ thr'[analysis_thread'].recommendations_list = <<>>
            /\ thr'[analysis_thread'].slot = 0
            /\ thr'[analysis_thread'].launched = <<>>
            /\ thr'[analysis_thread'].emitted = <<>>
            /\ completed_steps' = 0
       /\ \A t \in Threads :
            Terminal(thr[t]) =>
               \/ thr'[t].state = "released"
               \/ /\ thr'[t].state = thr[t].state
                  /\ thr'[t].slot = thr[t].slot
                  /\ thr'[t].ph = thr[t].ph
                  /\ thr'[t].launched = thr[t].launched
                  /\ thr'[t].emitted = thr[t].emitted
                  /\ thr'[t].recommendations_list = thr[t].recommendations_list
       /\ \A t \in Threads : thr[t].state = "released" => thr'[t].state = "released"]_vars

C27_Witness ==
    /\ analysis_thread = 2
    /\ thr[1].state = "released"
    /\ thr[2].state = "running" /\ thr[2].slot = 0
    /\ completed_steps = 0 /\ recommendations_text = <<>>

\* ------------------------------------------------------------ termination

\* The operating system schedules every worker thread that can take a step;
\* the worker needs nothing from the GUI thread to go on (signals are queued,
\* never waited for).
InitFair ==
    InitWith([selected_tools |-> {"Black"}, enable_autofix |-> FALSE,
              enable_metrics_tracking |-> FALSE, enable_git_integration |-> FALSE,
              radon_threshold |-> 10], MaxRuns)

SpecFair == InitFair /\ [][Next]_vars /\ \A t \in Threads : WF_vars(WorkerStep(t))

\* C28: every started run eventually reaches a terminal state: the worker
\* blocks only in the wait for a tool subprocess, each wait is bounded by the
\* timeout, and the list of blocks is finite.
C28_EveryRunTerminates ==
    \A t \in Threads : (thr[t].state = "running") ~> Terminal(thr[t])

C28_Witness ==
    \E t \in Threads :
        /\ thr[t].state = "finished" /\ thr[t].is_running
        /\ thr[t].outcomes = <<(<<"Black", "timeout">>)>>

\* ------------------------------------------------------------ end to end

\* The run of thread t has been delivered to its end, was never cancelled, had
\* only the linter selected with metrics tracking on, and pylint exited with
\* status 0 (the sample with no issues, "[]").
CleanLintRun(t) ==
    /\ t = analysis_thread
    /\ thr[t].state = "finished" /\ thr[t].finished_delivered
    /\ thr[t].is_running /\ ~thr[t].failed
    /\ thr[t].settings.selected_tools = {"Pylint"}
    /\ thr[t].settings.enable_metrics_tracking
    /\ thr[t].outcomes = <<(<<"Pylint", "zero">>)>>

InitCoverage ==
    \E sel \in {{"Pytest", "Coverage"}, {"Black"}} :
        InitWith([selected_tools |-> sel, enable_autofix |-> FALSE,
                  enable_metrics_tracking |-> FALSE, enable_git_integration |-> FALSE,
                  radon_threshold |-> 10], MaxRuns)

SpecCoverage ==
    InitCoverage /\ [][Next]_vars /\ \A t \in Threads : WF_vars(WorkerStep(t))

\* run_pytest of thread t is past run_command: pytest ran to its end, the run is
\* not cancelled and coverage.json does not exist (analysis.py:377-385).
AtMissingReport(t) ==
    /\ thr[t].state = "running" /\ thr[t].ph = "post"
    /\ run_order[thr[t].slot] = "Pytest"
    /\ thr[t].is_running
    /\ thr[t].outcomes # <<>>
    /\ thr[t].outcomes[Len(thr[t].outcomes)] \in {<<"Pytest", "zero">>, <<"Pytest", "nonzero">>}
    /\ ~coverage_report.exists

FindingsBanditRun(t) ==
    /\ t = analysis_thread
    /\ Completed(t) /\ RunOver(t)
    /\ thr[t].settings.selected_tools = {"Bandit"}
    /\ thr[t].outcomes = <<(<<"Bandit", "nonzero">>)>>

\* C31: when the security scanner reports two entries under its results list,
\* exiting with the status it uses when issues are found, the security findings
\* count is 2 and the recommendation is the fixed Bandit "address issues" string.
C31_TwoSecurityFindingsEndToEnd ==
    \A t \in Threads :
        FindingsBanditRun(t) =>
            /\ issue_counts.security_issues = 2
            /\ recommendations_text =
                  <<"Bandit: Address the identified security issues to secure your code.">>

\* ------------------------------------------- the complexity adapter alone

\* Block complexities and thresholds on both sides of each other and of the
\* default threshold.
ComplexityValues == {1, 10, 11}
ThresholdValues == {0, 10, 11}

SeqsUpTo(S, n) == UNION {[1..k -> S] : k \in 0..n}

\* Decoded radon documents: up to MaxModules modules of up to MaxBlocks blocks.
RadonDocuments == SeqsUpTo(SeqsUpTo(ComplexityValues, MaxBlocks), MaxModules)

\* settings.json with radon selected, with a threshold or without the key.
RadonSettings ==
    LET base == [selected_tools |-> {"Radon"}, enable_autofix |-> FALSE,
                 enable_metrics_tracking |-> FALSE, enable_git_integration |-> FALSE]
    IN  {base} \cup
        {[k \in DOMAIN base \cup {"radon_threshold"} |->
             IF k = "radon_threshold" THEN v ELSE base[k]] : v \in ThresholdValues}

\* A worker stands before generate_radon_recommendations with a document that
\* json.loads has decoded.
InitRadon ==
    \E st \in RadonSettings : \E complexities \in RadonDocuments :
        /\ settings = st
        /\ steps = {} /\ total_steps = 0 /\ completed_steps = 0
        /\ status_label = Label(<<"Ready">>)
        /\ progress_bar = 0
        /\ select_btn = TRUE
        /\ git_clone_btn = FALSE
        /\ cancel_btn = FALSE
        /\ analysis_thread = 0
        /\ recommendations_text = <<>>
        /\ issue_counts = NoIssues
        /\ tab_text = NoTabText
        /\ analysis_results = NoResults
        /\ gui = "idle" /\ msgboxes = 0
        /\ metrics_file = NoMetricsFile
        /\ coverage_report = NoReport
        /\ thr = [t \in Threads |->
                    IF t = 1 THEN AtAdapter(st, "Radon", complexities) ELSE Unused]
        /\ queue = <<>>
        /\ counted = <<>>
        /\ reject_tick = FALSE

\* analysis.py:220-229 applied to the decoded document the worker holds
radon_adapter(t) ==
    /\ isRunning(t) /\ thr[t].ph = "post"
    /\ thr' = [thr EXCEPT ![t].recommendations_list =
                              Append(@, radon_recommendation(thr[t].output, thr[t].settings)),
                          ![t].ph = "gate", ![t].slot = @ + 1]
    /\ UNCHANGED <<gui_vars, metrics_file, coverage_report, queue>>

NextRadon == \E t \in Threads : radon_adapter(t)

SpecRadon == InitRadon /\ [][NextRadon]_vars

\* The threshold the run is configured with: 10 when the setting is absent.
ConfiguredThreshold(st) ==
    IF "radon_threshold" \in DOMAIN st THEN st.radon_threshold ELSE 10

\* C32: the complexity recommendation is the "Simplify complex functions" string
\* exactly when at least one reported block has complexity strictly greater
\* than the run's radon_threshold (10 when unset), and the "within acceptable
\* limits" string otherwise.
C32_SimplifyExactlyAboveThreshold ==
    \A t \in Threads :
        (thr[t].state = "running" /\ thr[t].ph = "gate") =>
            LET over == \E m \in DOMAIN thr[t].output : \E b \in DOMAIN thr[t].output[m] :
                           thr[t].output[m][b] > ConfiguredThreshold(thr[t].settings)
            IN  thr[t].recommendations_list =
                   <<IF over
                     THEN "Radon: Simplify complex functions to reduce cognitive load."
                     ELSE "Radon: Code complexity is within acceptable limits.">>

C32_Witness ==
    /\ thr[1].ph = "gate"
    /\ thr[1].output = << <<1, 11>>, <<10>> >>
    /\ "radon_threshold" \notin DOMAIN thr[1].settings
    /\ thr[1].recommendations_list =
          <<"Radon: Simplify complex functions to reduce cognitive load.">>

\* --------------------------------------------------- failed invocations

\* How an invocation ends when the command did not run to an exit status:
\* TimeoutExpired, FileNotFoundError, another exception (analysis.py:534-556).
failure_exits == {"timeout", "notfound", "oserror"}

\* The recommendations that report a clean result.
positive_recommendations ==
    {"Pylint: No issues found. Great job!",
     "Mypy: No type issues found. Excellent!",
     "Radon: Code complexity is within acceptable limits.",
     "Bandit: No security issues found. Good job!",
     "Black: Code is properly formatted.",
     "Pydocstyle: Documentation complies with style guidelines.",
     "Pip-Licenses: All dependencies have compliant licenses.",
     "Pip-Audit: No vulnerabilities found in dependencies.",
     "Flake8: No code duplication issues found."}

\* The command of the block thread t is in has just ended in a failure and the
\* worker passes what run_command returned to the block's adapter.
StepAfterFailedInvocation(t) ==
    /\ thr[t].state = "running" /\ thr[t].ph = "post" /\ thr[t].sub = "main"
    /\ thr[t].outcomes # <<>>
    /\ thr[t].outcomes[Len(thr[t].outcomes)][2] \in failure_exits
    /\ thr'[t].ph # "post"

\* C33: a tool invocation that ends in a timeout or in a launch failure never
\* produces a positive "no issues" recommendation for that tool.
C33_FailedInvocationNeverPositive ==
    [][\A t \in Threads :
          StepAfterFailedInvocation(t) =>
             \A i \in (Len(thr[t].recommendations_list) + 1)..Len(thr'[t].recommendations_list) :
                thr'[t].recommendations_list[i] \notin positive_recommendations]_vars

\* ------------------------------------------------- the coverage report file

\* Thread t, not cancelled, takes the step of run_pytest that reads coverage.json
\* (analysis.py:382-398) and finds the file.
ReadsCoverageReport(t) ==
    /\ thr[t].state = "running" /\ thr[t].ph = "post"
    /\ run_order[thr[t].slot] = "Pytest"
    /\ thr[t].is_running
    /\ thr'[t].ph # "post"
    /\ coverage_report.exists

\* C34: the coverage report a run reads and reports was written by that same
\* run's pytest invocation; no run consumes a coverage.json left behind by an
\* earlier run.
C34_ReportReadWasWrittenByTheRun ==
    [][\A t \in Threads : ReadsCoverageReport(t) => coverage_report.by = t]_vars

\* ------------------------------------------------ what a snapshot holds

\* The lint count the run in progress has produced: the length of the list its
\* lint_completed signal carried (ui.py:682-692), 0 when none was delivered or
\* the text did not decode.
lint_issues_of_run ==
    IF "Linting" \in DOMAIN analysis_results
    THEN LET v == json_loads(analysis_results["Linting"])
         IN  IF v.ty = "JSONDecodeError" THEN 0 ELSE json_len(v)
    ELSE 0

\* The finished signal of a completed run is delivered and save_metrics
\* appends a snapshot.
SavesCompletedRun ==
    /\ gui = "idle" /\ queue # <<>>
    /\ Head(queue).sig = "finished" /\ Completed(Head(queue).t)
    /\ Len(metrics_file'.data) = Len(metrics_file.data) + 1

\* C35: each appended snapshot reflects only the run that produced it: a
\* category whose tool did not run or did not parse in that run never carries
\* over a value from an earlier run (stated for the lint count).
C35_SnapshotReflectsItsRunOnly ==
    [][SavesCompletedRun =>
          metrics_file'.data[Len(metrics_file'.data)].lint_issues = lint_issues_of_run]_vars

\* ------------------------------------------------ children after a cancel

\* stop() has returned for the cancelled run of thread t: the flag is cleared,
\* the GUI thread is out of stop() and the thread has ended or was terminated
\* (analysis.py:558-565).
StopReturned(t) == gui # "stop" /\ ~thr[t].is_running /\ Terminal(thr[t])

\* C36: after stop() returns for a cancelled run, no tool subprocess started by
\* that run is still executing (so that none runs concurrently with a tool
\* subprocess of a later run against the same project directory).
C36_NoChildAfterStopReturns ==
    \A t \in Threads : StopReturned(t) => thr[t].inflight = 0

\* ------------------------------------------------------- skipped blocks

\* The signal e is the "skipped" emission of the block of a tool that the run
\* of its thread did not select (analysis.py:63-123, the else branches).
SkippedUnselected(e) ==
    \E i \in 1..(FinalSlot - 1) :
        /\ run_order[i] \notin thr[e.t].settings.selected_tools
        /\ \E k \in DOMAIN skipped_events(e.t, run_order[i]) :
              skipped_events(e.t, run_order[i])[k] = e

\* C37: a logical step is counted complete only after a selected tool mapped to
\* it has been attempted; a "skipped" completion event emitted for a tool that
\* is not selected never advances progress.
C37_SkippedEventNeverCounts ==
    [][(gui = "idle" /\ queue # <<>> /\ queue' = Tail(queue)
          /\ SkippedUnselected(Head(queue)))
       => (completed_steps' = completed_steps /\ progress_bar' = progress_bar)]_vars

\* ----------------------------------------------- auto-fix recommendations

\* Thread t records the recommendation of a rewriting command in this step
\* (analysis.py:292, 454, 469).
RecordsRewrite(t) ==
    /\ AtRewrite(thr[t]) /\ thr[t].ph = "post"
    /\ Len(thr'[t].recommendations_list) = Len(thr[t].recommendations_list) + 1
    /\ thr'[t].recommendations_list[Len(thr'[t].recommendations_list)]
          = autofix_recommendation(run_order[thr[t].slot])

\* The command thread t has just come back from was launched and exited with
\* status 0.
RewriteSucceeded(t) ==
    /\ thr[t].launched # <<>>
    /\ thr[t].launched[Len(thr[t].launched)] = <<run_order[thr[t].slot], thr[t].sub>>
    /\ thr[t].outcomes # <<>>
    /\ thr[t].outcomes[Len(thr[t].outcomes)] = <<run_order[thr[t].slot], "zero">>

\* C38: an auto-fix recommendation stating that code was reformatted is recorded
\* only when the corresponding rewrite command was actually launched and
\* exited successfully.
C38_RewriteRecordedOnlyAfterSuccess ==
    [][\A t \in Threads : RecordsRewrite(t) => RewriteSucceeded(t)]_vars

\* ------------------------------------------------- workers of two runs

\* The GUI thread delivers a signal of a worker other than the one of the run
\* in progress.
DeliversEarlierSignal ==
    /\ gui = "idle" /\ queue # <<>> /\ queue' = Tail(queue)
    /\ Head(queue).t # analysis_thread

\* C39: events emitted by the worker of one run are never applied to a later
\* run: no completion or finished event from an earlier worker increments the
\* later run's completed-step count or triggers its end-of-run handling, and at
\* most one worker is running at any time.
C39_RunsIsolated ==
    /\ [](\A t, u \in Threads : (isRunning(t) /\ isRunning(u)) => t = u)
    /\ [][DeliversEarlierSignal =>
             /\ completed_steps' = completed_steps
             /\ metrics_file' = metrics_file
             /\ select_btn' = select_btn /\ cancel_btn' = cancel_btn]_vars

====
